---- MODULE Spec2Model ----
(***************************************************************************)
(* Model of the proxy-bidding auction of dimaaash/dispatch_test:           *)
(* models.Bidder, models.BidResult, the cent conversions, the validator,   *)
(* internal.BiddingEngine.ProcessBids and AuctionService.DetermineWinner.  *)
(*                                                                         *)
(* Dollar amounts (Go float64) are integers counting thousandths of a      *)
(* dollar, so that DollarsToCents rounds; the unexported *Cents fields are *)
(* integers counting cents.  A Go slice is a name of a backing array in    *)
(* the variable slices; a *Bidder is an index into such an array, 0 = nil. *)
(* An error value is the sequence of its layers, outermost first; the      *)
(* empty sequence is the nil error.                                        *)
(***************************************************************************)
EXTENDS Integers, Sequences, FiniteSets, TLC

VARIABLES
    op,            \* the entry point of the call
    maxRounds,     \* BiddingEngine.maxRounds
    slices,        \* the backing arrays: the caller's slice and the working copy
    rounds,        \* the local rounds of ProcessBids
    pc,            \* where the call is
    engineCalled,  \* ProcessBids has been entered
    incremented,   \* what the last Increment call of a caller returned
    result,        \* the *BidResult returned
    err,           \* the error returned
    conv           \* a conversion call: its argument, its value, the value converted back

vars == <<op, maxRounds, slices, rounds, pc, engineCalled, incremented, result, err, conv>>

----------------------------------------------------------------------------
(* Bounds of the model. *)

MaxCents == 2

MaxBidders == 2

MaxCalls == 3

\* The largest amount converted on its own, in thousandths of a dollar.
MaxMills == 1010

(* Program constants. *)

DefaultMaxRounds == 1000

TestMaxRounds == 2

----------------------------------------------------------------------------
(* internal/models: cent conversions. *)

Abs(x) == IF x < 0 THEN -x ELSE x

\* 2^s modulo q for 0 <= s <= 60, the two factors of 2^s within 32 bits.
Pow2Mod(s, q) ==
    (((2^(s \div 2)) % q) * ((2^(s - s \div 2)) % q)) % q

\* The binary exponent k of the positive ratio num/den: 2^k <= num/den < 2^(k+1).
FloorLog2(num, den) ==
    IF num >= den
    THEN CHOOSE k \in 0..29 : 2^k <= num \div den /\ num \div den < 2^(k + 1)
    ELSE -(CHOOSE j \in 1..10 : num * 2^j >= den /\ num * 2^(j - 1) < den)

\* dollars * 100 in float64, for a positive amount of m thousandths that is
\* half a cent past a whole cent (m % 10 = 5): whether the product is at
\* least the half m/10.  The float64 nearest m/1000 has a 53-bit significand
\* on the grid 2^(-s), and is off m/1000 by d thousandths of a grid step (r
\* is the remainder of m * 2^s by 1000).  The exact product with 100 is off
\* the half by d/10 grid steps, and is rounded to the grid of the product,
\* which is 2^gap times coarser: it reaches the half when it is not more
\* than half of such a step below it (the half has an even significand, so
\* the tie goes to it; below 0.5, a power of two, the steps are half as wide).
ProductReachesHalf(m) ==
    LET k == FloorLog2(m, 1000)
        s == 52 - k
        r == ((m % 1000) * Pow2Mod(s, 1000)) % 1000
        d == IF r < 500 THEN -r ELSE 1000 - r
        gap == FloorLog2(m, 10) - k
        halfStep == IF m = 5 THEN 10 * 2^(gap - 2) ELSE 10 * 2^(gap - 1)
    IN d >= -halfStep

\* int64(math.Round(dollars * 100)): math.Round rounds to the nearest integer,
\* halves away from zero.  Off a half the float64 product rounds as the
\* decimal amount does; on a half it rounds as ProductReachesHalf says.
DollarsToCents(dollars) ==
    LET a == Abs(dollars)
        c == IF a % 10 # 5 THEN (a + 5) \div 10
             ELSE IF ProductReachesHalf(a) THEN a \div 10 + 1
             ELSE a \div 10
    IN IF dollars >= 0 THEN c ELSE -c

CentsToDollars(cents) == cents * 10

----------------------------------------------------------------------------
(* internal/models: Bidder. *)

\* The zero value of time.Time, which a Bidder literal that names no EntryTime
\* has; no instant is before it.
ZeroTime == 0

\* The reading of the clock at the first time.Now() of a run, an instant
\* after the zero time.  A later call reads NowTime + k for some k >= 0: the
\* clock never goes back, and stands still only where it did not tick between
\* two calls.
NowTime == 100

\* NewBidder leaving currentBidCents at its zero value.
NewBidderZeroCurrent(id, name, startingBid, maxBid, autoIncrement, now) ==
    [ID |-> id, Name |-> name,
     StartingBid |-> startingBid, MaxBid |-> maxBid,
     AutoIncrement |-> autoIncrement, CurrentBid |-> startingBid,
     EntryTime |-> now, IsActive |-> TRUE,
     startingBidCents |-> DollarsToCents(startingBid),
     maxBidCents |-> DollarsToCents(maxBid),
     autoIncrementCents |-> DollarsToCents(autoIncrement),
     currentBidCents |-> 0]

\* now is what time.Now() returns in this call: the read of the clock is an
\* argument, chosen by the caller of the operator among the readings the clock
\* can give.
NewBidder(id, name, startingBid, maxBid, autoIncrement, now) ==
    [ID |-> id, Name |-> name,
     StartingBid |-> startingBid, MaxBid |-> maxBid,
     AutoIncrement |-> autoIncrement, CurrentBid |-> startingBid,
     EntryTime |-> now, IsActive |-> TRUE,
     startingBidCents |-> DollarsToCents(startingBid),
     maxBidCents |-> DollarsToCents(maxBid),
     autoIncrementCents |-> DollarsToCents(autoIncrement),
     currentBidCents |-> DollarsToCents(startingBid)]

\* A models.Bidder{...} literal naming the five exported parameters: every
\* other field has its zero value.
BidderLiteral(id, name, startingBid, maxBid, autoIncrement) ==
    [ID |-> id, Name |-> name,
     StartingBid |-> startingBid, MaxBid |-> maxBid,
     AutoIncrement |-> autoIncrement, CurrentBid |-> 0,
     EntryTime |-> ZeroTime, IsActive |-> FALSE,
     startingBidCents |-> 0, maxBidCents |-> 0,
     autoIncrementCents |-> 0, currentBidCents |-> 0]

\* CanIncrement asking only for room below maxBid, not for a whole step.
CanIncrementBelowMaxBid(b) ==
    b.IsActive /\ b.currentBidCents < b.maxBidCents

CanIncrement(b) ==
    b.IsActive /\ (b.currentBidCents + b.autoIncrementCents) <= b.maxBidCents

\* Increment as a plain addition: no CanIncrement check, no clamp.
IncrementNaive(b) ==
    [ok |-> TRUE,
     b |-> [b EXCEPT !.currentBidCents = b.currentBidCents + b.autoIncrementCents,
                     !.CurrentBid = CentsToDollars(b.currentBidCents
                                                   + b.autoIncrementCents)]]

\* Increment taking a last, shorter step: it goes ahead whenever the bidder
\* is active and below its maxBid, and the clamp cuts the step at maxBid.
IncrementClampsShortStep(b) ==
    IF ~(b.IsActive /\ b.currentBidCents < b.maxBidCents)
    THEN [ok |-> FALSE, b |-> b]
    ELSE LET sum == b.currentBidCents + b.autoIncrementCents
             reached == sum >= b.maxBidCents
             cur == IF reached THEN b.maxBidCents ELSE sum
         IN [ok |-> TRUE,
             b |-> [b EXCEPT !.currentBidCents = cur,
                             !.IsActive = IF reached THEN FALSE ELSE @,
                             !.CurrentBid = CentsToDollars(cur)]]

\* Increment marking a bidder that cannot increment as inactive.
IncrementDeactivatesOnFailure(b) ==
    IF ~CanIncrement(b)
    THEN [ok |-> FALSE, b |-> [b EXCEPT !.IsActive = FALSE]]
    ELSE LET sum == b.currentBidCents + b.autoIncrementCents
             reached == sum >= b.maxBidCents
             cur == IF reached THEN b.maxBidCents ELSE sum
         IN [ok |-> TRUE,
             b |-> [b EXCEPT !.currentBidCents = cur,
                             !.IsActive = IF reached THEN FALSE ELSE @,
                             !.CurrentBid = CentsToDollars(cur)]]

\* Increment refusing the step that would land exactly on maxBid, which
\* CanIncrement allows.
IncrementRefusesStepToMaxBid(b) ==
    IF ~(b.IsActive /\ (b.currentBidCents + b.autoIncrementCents) < b.maxBidCents)
    THEN [ok |-> FALSE, b |-> b]
    ELSE LET sum == b.currentBidCents + b.autoIncrementCents
         IN [ok |-> TRUE,
             b |-> [b EXCEPT !.currentBidCents = sum,
                             !.CurrentBid = CentsToDollars(sum)]]

\* Increment returns the Go bool and the bidder as the call leaves it.
Increment(b) ==
    IF ~CanIncrement(b)
    THEN [ok |-> FALSE, b |-> b]
    ELSE LET sum == b.currentBidCents + b.autoIncrementCents
             reached == sum >= b.maxBidCents
             cur == IF reached THEN b.maxBidCents ELSE sum
         IN [ok |-> TRUE,
             b |-> [b EXCEPT !.currentBidCents = cur,
                             !.IsActive = IF reached THEN FALSE ELSE @,
                             !.CurrentBid = CentsToDollars(cur)]]

\* The bidder after n Increment calls.
RECURSIVE AfterCalls(_, _)
AfterCalls(b, n) == IF n = 0 THEN b ELSE AfterCalls(Increment(b).b, n - 1)

SyncFloatFields(b) ==
    [b EXCEPT !.CurrentBid = CentsToDollars(b.currentBidCents),
              !.StartingBid = CentsToDollars(b.startingBidCents),
              !.MaxBid = CentsToDollars(b.maxBidCents),
              !.AutoIncrement = CentsToDollars(b.autoIncrementCents)]

----------------------------------------------------------------------------
(* internal/models: errors.  One layer of an error value. *)

ErrLayer(gotype, type, operation) ==
    [gotype |-> gotype, Type |-> type, Operation |-> operation]

NoError == << >>

NewAuctionError(type, operation) ==
    << ErrLayer("AuctionError", type, operation) >>

NewAuctionErrorWithCause(type, operation, cause) ==
    << ErrLayer("AuctionError", type, operation) >> \o cause

NewProcessingErrorWithCause(operation, cause) ==
    << ErrLayer("ProcessingError", "processing", operation) >> \o cause

\* errors.New: an error that is no AuctionError and has no type or operation.
NewPlainError == << ErrLayer("errorString", "", "") >>

\* err.(*models.AuctionError): only a plain AuctionError passes the assertion.
IsAuctionError(e) == e[1].gotype = "AuctionError"

NewSystemError(operation) ==
    << ErrLayer("SystemError", "system", operation) >>

NewInputError(operation) ==
    << ErrLayer("InputError", "input", operation) >>

\* TimeoutError declares its own Operation field, which shadows the embedded
\* AuctionError's: WithOperation writes the embedded one, the constructor's
\* argument stays in the outer one.
NewTimeoutError(operation) ==
    << ErrLayer("TimeoutError", "timeout", operation) >>

----------------------------------------------------------------------------
(* internal/validation: DefaultBidValidator. *)

\* The white space strings.TrimSpace cuts off (unicode.IsSpace) that a string
\* of the model can hold: space, tab, line feed, carriage return, form feed,
\* vertical tab, U+0085, U+00A0 and U+1680.  The lexer takes no character from
\* U+2000 on, where the other spaces of Unicode are.
WhiteSpace == {" ", "\t", "\n", "\r", "\f", "", "", " ", " "}

\* strings.TrimSpace(s) == "": every character of s is white space.
Blank(s) == \A i \in 1..Len(s) : SubSeq(s, i, i) \in WhiteSpace

\* The fields ValidateBidder reports, in the order it checks them.
ValidateBidder(bidder) ==
    (IF Blank(bidder.ID) THEN <<"ID">> ELSE << >>)
    \o (IF Blank(bidder.Name) THEN <<"Name">> ELSE << >>)
    \o (IF bidder.StartingBid < 0 THEN <<"StartingBid">> ELSE << >>)
    \o (IF bidder.MaxBid < 0 THEN <<"MaxBid">> ELSE << >>)
    \o (IF bidder.AutoIncrement <= 0 THEN <<"AutoIncrement">> ELSE << >>)
    \o (IF bidder.StartingBid > bidder.MaxBid THEN <<"StartingBid">> ELSE << >>)

\* The collection of validation details without the check for duplicate IDs.
RECURSIVE AllValidationErrorsNoDuplicateCheck(_, _, _)
AllValidationErrorsNoDuplicateCheck(bidders, i, seen) ==
    IF i > Len(bidders) THEN << >>
    ELSE ValidateBidder(bidders[i])
         \o AllValidationErrorsNoDuplicateCheck(bidders, i + 1, seen \cup {bidders[i].ID})

\* The validation details collected over bidders[i..]; seen is the bidderIDs map.
RECURSIVE AllValidationErrors(_, _, _)
AllValidationErrors(bidders, i, seen) ==
    IF i > Len(bidders) THEN << >>
    ELSE IF bidders[i].ID \in seen
         THEN <<"ID">> \o AllValidationErrors(bidders, i + 1, seen)
         ELSE ValidateBidder(bidders[i])
              \o AllValidationErrors(bidders, i + 1, seen \cup {bidders[i].ID})

\* ValidateBidders without its check of the empty list.
ValidateBiddersNoEmptyCheck(bidders) ==
    IF Len(AllValidationErrors(bidders, 1, {})) > 0
    THEN NewAuctionError("validation", "ValidateBidders")
    ELSE NoError

ValidateBidders(bidders) ==
    IF Len(bidders) = 0
    THEN NewAuctionError("validation", "ValidateBidders")
    ELSE IF Len(AllValidationErrors(bidders, 1, {})) > 0
         THEN NewAuctionError("validation", "ValidateBidders")
         ELSE NoError

----------------------------------------------------------------------------
(* internal/models: BidResult.  Winner is the index the *Bidder points at  *)
(* in the array AllBidders names, 0 for nil.                               *)

\* A result handed back next to an error.
PartialResult ==
    [nil |-> FALSE, Winner |-> 0, WinningBid |-> 0, TotalBidders |-> 0,
     BiddingRounds |-> 0, AllBidders |-> "working", winningBidCents |-> 0]

\* The nil *BidResult.
NilResult ==
    [nil |-> TRUE, Winner |-> 0, WinningBid |-> 0, TotalBidders |-> 0,
     BiddingRounds |-> 0, AllBidders |-> "none", winningBidCents |-> 0]

NewBidResult(winner, winningBid, totalBidders, biddingRounds, allBidders) ==
    [nil |-> FALSE, Winner |-> winner, WinningBid |-> winningBid,
     TotalBidders |-> totalBidders, BiddingRounds |-> biddingRounds,
     AllBidders |-> allBidders, winningBidCents |-> DollarsToCents(winningBid)]

NewBidResultFromCents(winner, winningBidCents, totalBidders, biddingRounds, allBidders) ==
    [nil |-> FALSE, Winner |-> winner, WinningBid |-> CentsToDollars(winningBidCents),
     TotalBidders |-> totalBidders, BiddingRounds |-> biddingRounds,
     AllBidders |-> allBidders, winningBidCents |-> winningBidCents]

\* Both constructors end by syncing the float fields of every element of the
\* slice they were handed, in place.
SyncAll(bs) == [i \in 1..Len(bs) |-> SyncFloatFields(bs[i])]

----------------------------------------------------------------------------
(* internal: BiddingEngine. *)

\* The loop of findHighestBidCents without its check of each bidder's bid.
RECURSIVE HighestLoopUnchecked(_, _, _)
HighestLoopUnchecked(bidders, i, highestCents) ==
    IF i > Len(bidders) THEN [highest |-> highestCents, err |-> NoError]
    ELSE HighestLoopUnchecked(bidders, i + 1,
                              IF bidders[i].currentBidCents > highestCents
                              THEN bidders[i].currentBidCents ELSE highestCents)

\* The loop of findHighestBidCents over bidders[1:], from index i on.
RECURSIVE HighestLoop(_, _, _)
HighestLoop(bidders, i, highestCents) ==
    IF i > Len(bidders) THEN [highest |-> highestCents, err |-> NoError]
    ELSE IF bidders[i].currentBidCents < 0
         THEN [highest |-> 0, err |-> NewSystemError("findHighestBidCents")]
         ELSE HighestLoop(bidders, i + 1,
                          IF bidders[i].currentBidCents > highestCents
                          THEN bidders[i].currentBidCents ELSE highestCents)

findHighestBidCents(bidders) ==
    IF Len(bidders) = 0 THEN [highest |-> 0, err |-> NoError]
    ELSE IF bidders[1].currentBidCents < 0
         THEN [highest |-> 0, err |-> NewSystemError("findHighestBidCents")]
         ELSE HighestLoop(bidders, 2, bidders[1].currentBidCents)

\* The loop of IncrementBids reporting an increment for every bidder below
\* the highest bid, whether or not it could increment.
RECURSIVE IncrementLoopCountsLosers(_, _, _, _)
IncrementLoopCountsLosers(bidders, i, highestBidCents, anyIncremented) ==
    IF i > Len(bidders)
    THEN [incremented |-> anyIncremented, err |-> NoError, bidders |-> bidders]
    ELSE IF bidders[i].currentBidCents >= highestBidCents
         THEN IncrementLoopCountsLosers(bidders, i + 1, highestBidCents, anyIncremented)
         ELSE IncrementLoopCountsLosers(
                  [bidders EXCEPT ![i] = Increment(bidders[i]).b], i + 1,
                  highestBidCents, TRUE)

\* The loop of IncrementBids marking every bidder it skips as active.
RECURSIVE IncrementLoopReactivatesSkipped(_, _, _, _)
IncrementLoopReactivatesSkipped(bidders, i, highestBidCents, anyIncremented) ==
    IF i > Len(bidders)
    THEN [incremented |-> anyIncremented, err |-> NoError, bidders |-> bidders]
    ELSE IF bidders[i].currentBidCents >= highestBidCents \/ ~CanIncrement(bidders[i])
         THEN IncrementLoopReactivatesSkipped(
                  [bidders EXCEPT ![i].IsActive = TRUE], i + 1,
                  highestBidCents, anyIncremented)
         ELSE IncrementLoopReactivatesSkipped(
                  [bidders EXCEPT ![i] = Increment(bidders[i]).b], i + 1,
                  highestBidCents, TRUE)

\* The loop of IncrementBids taking a bid it has just raised as the new
\* highest bid for the bidders after it.
RECURSIVE IncrementLoopRecomputesHighest(_, _, _, _)
IncrementLoopRecomputesHighest(bidders, i, highestBidCents, anyIncremented) ==
    IF i > Len(bidders)
    THEN [incremented |-> anyIncremented, err |-> NoError, bidders |-> bidders]
    ELSE IF bidders[i].currentBidCents >= highestBidCents \/ ~CanIncrement(bidders[i])
         THEN IncrementLoopRecomputesHighest(bidders, i + 1, highestBidCents,
                                             anyIncremented)
         ELSE LET r == Increment(bidders[i])
              IN IncrementLoopRecomputesHighest(
                     [bidders EXCEPT ![i] = r.b], i + 1,
                     IF r.b.currentBidCents > highestBidCents
                     THEN r.b.currentBidCents ELSE highestBidCents,
                     TRUE)

\* The loop of IncrementBids from index i on, against the highest bid found
\* before the loop started.
RECURSIVE IncrementLoop(_, _, _, _)
IncrementLoop(bidders, i, highestBidCents, anyIncremented) ==
    IF i > Len(bidders)
    THEN [incremented |-> anyIncremented, err |-> NoError, bidders |-> bidders]
    ELSE IF bidders[i].currentBidCents >= highestBidCents \/ ~CanIncrement(bidders[i])
         THEN IncrementLoop(bidders, i + 1, highestBidCents, anyIncremented)
         ELSE LET r == Increment(bidders[i])
              IN IF r.ok
                 THEN IncrementLoop([bidders EXCEPT ![i] = r.b], i + 1,
                                    highestBidCents, TRUE)
                 ELSE [incremented |-> FALSE,
                       err |-> NewSystemError("IncrementBids"),
                       bidders |-> [bidders EXCEPT ![i] = r.b]]

IncrementBids(bidders) ==
    IF Len(bidders) <= 1
    THEN [incremented |-> FALSE, err |-> NoError, bidders |-> bidders]
    ELSE LET h == findHighestBidCents(bidders)
         IN IF h.err # NoError
            THEN [incremented |-> FALSE,
                  err |-> NewProcessingErrorWithCause("", h.err),
                  bidders |-> bidders]
            ELSE IncrementLoop(bidders, 1, h.highest, FALSE)

\* The loop of findWinner with its comparison turned around (< for >).
RECURSIVE WinnerLoopLowestBid(_, _, _)
WinnerLoopLowestBid(bidders, i, winner) ==
    IF i > Len(bidders)
    THEN IF bidders[winner].currentBidCents < 0
         THEN [winner |-> 0, err |-> NewSystemError("findWinner")]
         ELSE [winner |-> winner, err |-> NoError]
    ELSE IF bidders[i].currentBidCents < 0
         THEN [winner |-> 0, err |-> NewSystemError("findWinner")]
         ELSE IF bidders[i].currentBidCents < bidders[winner].currentBidCents
              THEN WinnerLoopLowestBid(bidders, i + 1, i)
              ELSE IF /\ bidders[i].currentBidCents = bidders[winner].currentBidCents
                      /\ bidders[i].EntryTime < bidders[winner].EntryTime
                   THEN WinnerLoopLowestBid(bidders, i + 1, i)
                   ELSE WinnerLoopLowestBid(bidders, i + 1, winner)

\* The loop of findWinner taking a later bidder on an equal bid (>= for >).
RECURSIVE WinnerLoopLastOnTie(_, _, _)
WinnerLoopLastOnTie(bidders, i, winner) ==
    IF i > Len(bidders)
    THEN IF bidders[winner].currentBidCents < 0
         THEN [winner |-> 0, err |-> NewSystemError("findWinner")]
         ELSE [winner |-> winner, err |-> NoError]
    ELSE IF bidders[i].currentBidCents < 0
         THEN [winner |-> 0, err |-> NewSystemError("findWinner")]
         ELSE IF bidders[i].currentBidCents >= bidders[winner].currentBidCents
              THEN WinnerLoopLastOnTie(bidders, i + 1, i)
              ELSE WinnerLoopLastOnTie(bidders, i + 1, winner)

RECURSIVE WinnerLoop(_, _, _)
WinnerLoop(bidders, i, winner) ==
    IF i > Len(bidders)
    THEN IF bidders[winner].currentBidCents < 0
         THEN [winner |-> 0, err |-> NewSystemError("findWinner")]
         ELSE [winner |-> winner, err |-> NoError]
    ELSE IF bidders[i].currentBidCents < 0
         THEN [winner |-> 0, err |-> NewSystemError("findWinner")]
         ELSE IF bidders[i].currentBidCents > bidders[winner].currentBidCents
              THEN WinnerLoop(bidders, i + 1, i)
              ELSE IF /\ bidders[i].currentBidCents = bidders[winner].currentBidCents
                      /\ bidders[i].EntryTime < bidders[winner].EntryTime
                   THEN WinnerLoop(bidders, i + 1, i)
                   ELSE WinnerLoop(bidders, i + 1, winner)

findWinner(bidders) ==
    IF Len(bidders) = 0 THEN [winner |-> 0, err |-> NoError]
    ELSE WinnerLoop(bidders, 2, 1)

\* The second loop taking the rivals' current bids for their maximum bids.
RECURSIVE SecondHighestLoopByCurrentBid(_, _, _, _)
SecondHighestLoopByCurrentBid(bidders, i, winnerID, secondHighestCents) ==
    IF i > Len(bidders) THEN secondHighestCents
    ELSE IF bidders[i].ID = winnerID
         THEN SecondHighestLoopByCurrentBid(bidders, i + 1, winnerID, secondHighestCents)
         ELSE SecondHighestLoopByCurrentBid(bidders, i + 1, winnerID,
                                IF bidders[i].currentBidCents > secondHighestCents
                                THEN bidders[i].currentBidCents
                                ELSE secondHighestCents)

\* The second loop of CalculateMinimumWinningBidCents from index i on.
RECURSIVE SecondHighestLoop(_, _, _, _)
SecondHighestLoop(bidders, i, winnerID, secondHighestCents) ==
    IF i > Len(bidders) THEN secondHighestCents
    ELSE IF bidders[i].ID = winnerID
         THEN SecondHighestLoop(bidders, i + 1, winnerID, secondHighestCents)
         ELSE SecondHighestLoop(bidders, i + 1, winnerID,
                                IF bidders[i].maxBidCents > secondHighestCents
                                THEN bidders[i].maxBidCents
                                ELSE secondHighestCents)

\* CalculateMinimumWinningBidCents charging the rivals' highest maximum
\* without the winner's increment on top.
CalculateMinimumWinningBidCentsNoIncrement(bidders, winner) ==
    IF winner = << >> THEN [cents |-> 0, err |-> NewInputError("CalculateMinimumWinningBidCents")]
    ELSE IF Len(bidders) = 0
    THEN [cents |-> 0, err |-> NewInputError("CalculateMinimumWinningBidCents")]
    ELSE IF ~(\E i \in 1..Len(bidders) : bidders[i].ID = winner[1].ID)
    THEN [cents |-> 0, err |-> NewInputError("CalculateMinimumWinningBidCents")]
    ELSE LET w == winner[1]
             secondHighestCents == SecondHighestLoop(bidders, 1, w.ID, 0)
             capped == IF secondHighestCents > w.maxBidCents
                       THEN w.maxBidCents ELSE secondHighestCents
             floored == IF capped < w.startingBidCents THEN w.startingBidCents ELSE capped
         IN IF secondHighestCents = 0
            THEN [cents |-> w.startingBidCents, err |-> NoError]
            ELSE IF floored < 0
                 THEN [cents |-> 0, err |-> NewSystemError("CalculateMinimumWinningBidCents")]
                 ELSE [cents |-> floored, err |-> NoError]

\* CalculateMinimumWinningBidCents without the cap at the winner's maximum.
CalculateMinimumWinningBidCentsNoCap(bidders, winner) ==
    IF winner = << >> THEN [cents |-> 0, err |-> NewInputError("CalculateMinimumWinningBidCents")]
    ELSE IF Len(bidders) = 0
    THEN [cents |-> 0, err |-> NewInputError("CalculateMinimumWinningBidCents")]
    ELSE IF ~(\E i \in 1..Len(bidders) : bidders[i].ID = winner[1].ID)
    THEN [cents |-> 0, err |-> NewInputError("CalculateMinimumWinningBidCents")]
    ELSE LET w == winner[1]
             secondHighestCents == SecondHighestLoop(bidders, 1, w.ID, 0)
             raised == secondHighestCents + w.autoIncrementCents
             floored == IF raised < w.startingBidCents THEN w.startingBidCents ELSE raised
         IN IF secondHighestCents = 0
            THEN [cents |-> w.startingBidCents, err |-> NoError]
            ELSE IF floored < 0
                 THEN [cents |-> 0, err |-> NewSystemError("CalculateMinimumWinningBidCents")]
                 ELSE [cents |-> floored, err |-> NoError]

\* CalculateMinimumWinningBidCents returning the winner's starting bid whether
\* or not there are other bidders.
CalculateMinimumWinningBidCentsIgnoresRivals(bidders, winner) ==
    IF winner = << >> THEN [cents |-> 0, err |-> NewInputError("CalculateMinimumWinningBidCents")]
    ELSE IF Len(bidders) = 0
    THEN [cents |-> 0, err |-> NewInputError("CalculateMinimumWinningBidCents")]
    ELSE IF ~(\E i \in 1..Len(bidders) : bidders[i].ID = winner[1].ID)
    THEN [cents |-> 0, err |-> NewInputError("CalculateMinimumWinningBidCents")]
    ELSE [cents |-> winner[1].startingBidCents, err |-> NoError]

\* CalculateMinimumWinningBidCents without the search for the winner's ID in
\* the slice.
CalculateMinimumWinningBidCentsNoSearch(bidders, winner) ==
    IF winner = << >> THEN [cents |-> 0, err |-> NewInputError("CalculateMinimumWinningBidCents")]
    ELSE IF Len(bidders) = 0
    THEN [cents |-> 0, err |-> NewInputError("CalculateMinimumWinningBidCents")]
    ELSE LET w == winner[1]
             secondHighestCents == SecondHighestLoop(bidders, 1, w.ID, 0)
             raised == secondHighestCents + w.autoIncrementCents
             capped == IF raised > w.maxBidCents THEN w.maxBidCents ELSE raised
             floored == IF capped < w.startingBidCents THEN w.startingBidCents ELSE capped
         IN IF secondHighestCents = 0
            THEN [cents |-> w.startingBidCents, err |-> NoError]
            ELSE IF floored < 0
                 THEN [cents |-> 0, err |-> NewSystemError("CalculateMinimumWinningBidCents")]
                 ELSE [cents |-> floored, err |-> NoError]

\* winner is a *Bidder passed by the caller: << >> for nil, <<b>> for &b.
CalculateMinimumWinningBidCents(bidders, winner) ==
    IF winner = << >> THEN [cents |-> 0, err |-> NewInputError("CalculateMinimumWinningBidCents")]
    ELSE IF Len(bidders) = 0
    THEN [cents |-> 0, err |-> NewInputError("CalculateMinimumWinningBidCents")]
    ELSE IF ~(\E i \in 1..Len(bidders) : bidders[i].ID = winner[1].ID)
    THEN [cents |-> 0, err |-> NewInputError("CalculateMinimumWinningBidCents")]
    ELSE LET w == winner[1]
             secondHighestCents == SecondHighestLoop(bidders, 1, w.ID, 0)
             raised == secondHighestCents + w.autoIncrementCents
             capped == IF raised > w.maxBidCents THEN w.maxBidCents ELSE raised
             floored == IF capped < w.startingBidCents THEN w.startingBidCents ELSE capped
         IN IF secondHighestCents = 0
            THEN [cents |-> w.startingBidCents, err |-> NoError]
            ELSE IF floored < 0
                 THEN [cents |-> 0, err |-> NewSystemError("CalculateMinimumWinningBidCents")]
                 ELSE [cents |-> floored, err |-> NoError]

\* The reinitialisation keeping the current bid and the activity the caller
\* passed in.
ReinitializeKeepsCurrentBid(bidders) ==
    [i \in 1..Len(bidders) |->
        [NewBidder(bidders[i].ID, bidders[i].Name, bidders[i].StartingBid,
                   bidders[i].MaxBid, bidders[i].AutoIncrement, NowTime + i)
            EXCEPT !.EntryTime = bidders[i].EntryTime,
                   !.CurrentBid = bidders[i].CurrentBid,
                   !.currentBidCents = DollarsToCents(bidders[i].CurrentBid),
                   !.IsActive = bidders[i].IsActive]]

\* The first loop of ProcessBids: every element rebuilt by NewBidder from its
\* float fields, its entry time kept.
Reinitialize(bidders) ==
    [i \in 1..Len(bidders) |->
        [NewBidder(bidders[i].ID, bidders[i].Name, bidders[i].StartingBid,
                   bidders[i].MaxBid, bidders[i].AutoIncrement, NowTime + i)
            EXCEPT !.EntryTime = bidders[i].EntryTime]]

\* sort.Slice on fewer than 13 elements is an insertion sort: element i moves
\* left while it is Before its left neighbour.
RECURSIVE InsertLeft(_, _)
InsertLeft(s, j) ==
    IF j > 1 /\ s[j].EntryTime < s[j - 1].EntryTime
    THEN InsertLeft([s EXCEPT ![j] = s[j - 1], ![j - 1] = s[j]], j - 1)
    ELSE s

RECURSIVE InsertionSortFrom(_, _)
InsertionSortFrom(s, i) ==
    IF i > Len(s) THEN s ELSE InsertionSortFrom(InsertLeft(s, i), i + 1)

\* ProcessBids without the sort of its working slice.
SortByEntryTimeSkipped(bidders) == bidders

SortByEntryTime(bidders) == InsertionSortFrom(bidders, 2)

\* The index sequences that rearrange the sorted slice s among elements of
\* equal entry time only; chosen is the prefix already fixed.
RECURSIVE TieOrders(_, _)
TieOrders(s, chosen) ==
    IF Len(chosen) = Len(s) THEN {chosen}
    ELSE LET k == Len(chosen) + 1
             free == {j \in 1..Len(s) :
                         /\ s[j].EntryTime = s[k].EntryTime
                         /\ \A c \in 1..Len(chosen) : chosen[c] # j}
         IN UNION {TieOrders(s, Append(chosen, j)) : j \in free}

\* What sort.Slice can leave in the slice.  Up to 12 elements it is the
\* insertion sort; beyond, the order of elements with equal entry times is
\* whatever the quicksort passes leave ("The sort is not guaranteed to be
\* stable"), so every order by entry time is an outcome.
SortOutcomes(bidders) ==
    IF Len(bidders) <= 12 THEN {SortByEntryTime(bidders)}
    ELSE LET s == SortByEntryTime(bidders)
         IN {[k \in 1..Len(s) |-> s[p[k]]] : p \in TieOrders(s, << >>)}

\* The round loop of ProcessBids as a function of the working slice: the
\* slice, the round count and the error it leaves the loop with.
RECURSIVE RoundLoop(_, _, _)
RoundLoop(bidders, r, cap) ==
    IF ~(r < cap) THEN [bidders |-> bidders, rounds |-> r, err |-> NoError]
    ELSE LET x == IncrementBids(bidders)
         IN IF x.err # NoError
            THEN [bidders |-> x.bidders, rounds |-> r,
                  err |-> NewProcessingErrorWithCause("ProcessBids.IncrementBids", x.err)]
            ELSE IF ~x.incremented
                 THEN [bidders |-> x.bidders, rounds |-> r, err |-> NoError]
                 ELSE RoundLoop(x.bidders, r + 1, cap)

\* ProcessBids of an engine with maxRounds = cap as a function of its
\* argument, for slices short enough for the sort to be the insertion sort:
\* the error, the winner's index in the final working slice (0 for
\* none), the winning bid in cents, the rounds and the final working slice.
ProcessBidsOn(input, cap) ==
    IF Len(input) = 0
    THEN [err |-> NoError, nil |-> FALSE, winner |-> 0, winningBidCents |-> 0,
          rounds |-> 0, bidders |-> SyncAll(input)]
    ELSE LET l == RoundLoop(SortByEntryTime(Reinitialize(input)), 0, cap)
             failed(e) == [err |-> e, nil |-> TRUE, winner |-> 0, winningBidCents |-> 0,
                           rounds |-> l.rounds, bidders |-> l.bidders]
         IN IF l.err # NoError THEN failed(l.err)
            ELSE IF l.rounds >= cap THEN failed(NewTimeoutError("ProcessBids"))
            ELSE LET w == findWinner(l.bidders)
                 IN IF w.err # NoError
                    THEN failed(NewProcessingErrorWithCause("ProcessBids.FindWinner", w.err))
                    ELSE IF w.winner = 0
                    THEN [err |-> NoError, nil |-> FALSE, winner |-> 0,
                          winningBidCents |-> 0, rounds |-> l.rounds,
                          bidders |-> SyncAll(l.bidders)]
                    ELSE LET m == CalculateMinimumWinningBidCents(
                                      l.bidders, <<l.bidders[w.winner]>>)
                         IN IF m.err # NoError
                            THEN failed(NewProcessingErrorWithCause(
                                     "ProcessBids.CalculateMinimumWinningBidCents", m.err))
                            ELSE [err |-> NoError, nil |-> FALSE, winner |-> w.winner,
                                  winningBidCents |-> m.cents, rounds |-> l.rounds,
                                  bidders |-> SyncAll(l.bidders)]

----------------------------------------------------------------------------
(* The callers' inputs. *)

BidderIDs ==
    <<"b1", "b2", "b3", "b4", "b5", "b6", "b7", "b8", "b9", "b10", "b11", "b12", "b13">>

\* Whole-cent dollar amounts up to MaxCents cents.
WholeCentDollars == {CentsToDollars(c) : c \in 0..MaxCents}

\* <<startingBid, maxBid, autoIncrement>> triples the validator accepts.
ValidProfiles ==
    {p \in WholeCentDollars \X WholeCentDollars \X WholeCentDollars :
        p[1] <= p[2] /\ p[3] > 0}

\* Triples whose dollar amounts are not whole cents (0.004, 0.015, 0.01, and
\* an increment of 0.004, which is zero cents, on a bidder already at its
\* maximum), and triples the validator rejects: negative starting bid, starting bid above
\* the maximum, negative increment.
OtherProfiles ==
    { <<4, 15, 10>>, <<10, 10, 4>>, <<-10, 10, 10>>, <<10, 0, 10>>, <<0, 10, -10>> }

Profiles == ValidProfiles \cup OtherProfiles

\* The entry times of a list of n bidders: in input order, against it, all equal.
EntryOrders == {"asc", "desc", "tie"}

\* "front": the first two bidders entered together, the following ones later
\* in input order, and the last one before all of them.
EntryTimeOf(order, i, n) ==
    IF order = "asc" THEN i
    ELSE IF order = "desc" THEN n + 1 - i
    ELSE IF order = "tie" THEN 1
    ELSE IF i = n THEN 0 ELSE IF i = 1 THEN 1 ELSE i - 1

\* The IDs of a list: pairwise distinct, or the first one repeated.
IDSchemes == {"unique", "dup"}

IDOf(scheme, i) == IF scheme = "unique" THEN BidderIDs[i] ELSE BidderIDs[1]

\* A caller's slice: each element built by NewBidder, one call after the
\* other, then given its entry time.  The order "asc" is also the order of the
\* clock readings of the calls when the clock ticked between them, "tie" the
\* one when it did not, and "desc" a slice handed over in reverse.
MakeBidders(ps, order, scheme) ==
    [i \in 1..Len(ps) |->
        [NewBidder(IDOf(scheme, i), "name", ps[i][1], ps[i][2], ps[i][3], NowTime + i - 1)
            EXCEPT !.EntryTime = EntryTimeOf(order, i, Len(ps))]]

ProfileLists == UNION {[1..n -> Profiles] : n \in 0..MaxBidders}

\* <<entry order, ID scheme>>: every order with distinct IDs, and the repeated
\* ID in input order.
Arrangements ==
    {<<order, "unique">> : order \in EntryOrders}
    \cup {<<"asc", scheme>> : scheme \in IDSchemes}

InputLists ==
    {MakeBidders(ps, ar[1], ar[2]) : ps \in ProfileLists, ar \in Arrangements}

\* <<entry point, the engine's maxRounds>>: DetermineWinner runs the engine
\* NewAuctionService builds; ProcessBids is called on an engine built with a
\* small cap (and on the default engine under SpecDefaultCap).
Calls ==
    { <<"DetermineWinner", DefaultMaxRounds>>,
      <<"ProcessBids", TestMaxRounds>> }

\* A caller that only builds one bidder and calls Increment on it.
SingleBidders == {MakeBidders(<<p>>, "asc", "unique") : p \in Profiles}

\* What a caller of the validator writes into a bidder: an ID, a blank ID,
\* a name or none, and a triple that is fine, has a zero increment, a
\* negative starting bid, a negative maximum, or a starting bid above the
\* maximum.
ValidatorIDs == {"b1", "b2", " \t"}

ValidatorNames == {"name", ""}

ValidatorProfiles ==
    { <<0, 10, 10>>, <<0, 10, 0>>, <<-10, 10, 10>>, <<0, -10, 10>>, <<20, 10, 10>> }

ValidatorBidders ==
    {BidderLiteral(id, name, p[1], p[2], p[3]) :
        id \in ValidatorIDs, name \in ValidatorNames, p \in ValidatorProfiles}

ValidatorInputs == UNION {[1..n -> ValidatorBidders] : n \in 0..MaxBidders}

----------------------------------------------------------------------------
(* State. *)

\* The working slice sharing the caller's array (no make, no copy).
WorkingArrayAliased == "caller"

\* The array the working slice of ProcessBids lives in: make() gives a new one.
WorkingArray == "working"

inputBidders == slices["caller"]

workingBidders == slices[WorkingArray]

\* Where a call that has left the engine continues.
AfterEngine == IF op = "DetermineWinner" THEN "returned" ELSE "done"

\* No conversion call.
NoConversion == [arg |-> 0, value |-> 0, back |-> 0]

InitWith(call, input) ==
    /\ op = call[1]
    /\ maxRounds = call[2]
    /\ slices = [caller |-> input, working |-> << >>, winner |-> << >>]
    /\ rounds = 0
    /\ pc = IF call[1] = "DetermineWinner" THEN "call" ELSE "engine"
    /\ engineCalled = FALSE
    /\ incremented = "none"
    /\ result = NilResult
    /\ err = NoError
    /\ conv = NoConversion

\* A bidder of its own, before the first Increment call; rounds counts the calls.
InitBidder(input) ==
    /\ op = "Increment"
    /\ maxRounds = 0
    /\ slices = [caller |-> << >>, working |-> input, winner |-> << >>]
    /\ rounds = 0
    /\ pc = "bidder"
    /\ engineCalled = FALSE
    /\ incremented = "none"
    /\ result = NilResult
    /\ err = NoError
    /\ conv = NoConversion

\* A caller of the validator alone, before ValidateBidders.
InitValidate(input) ==
    /\ op = "ValidateBidders"
    /\ maxRounds = 0
    /\ slices = [caller |-> input, working |-> << >>, winner |-> << >>]
    /\ rounds = 0
    /\ pc = "validate"
    /\ engineCalled = FALSE
    /\ incremented = "none"
    /\ result = NilResult
    /\ err = NoError
    /\ conv = NoConversion

\* A caller of the conversions alone, before the call: DollarsToCents of an
\* amount in thousandths of a dollar, or CentsToDollars of a number of cents.
InitConvert(call, x) ==
    /\ op = call
    /\ maxRounds = 0
    /\ slices = [caller |-> << >>, working |-> << >>, winner |-> << >>]
    /\ rounds = 0
    /\ pc = "convert"
    /\ engineCalled = FALSE
    /\ incremented = "none"
    /\ result = NilResult
    /\ err = NoError
    /\ conv = [arg |-> x, value |-> 0, back |-> 0]

\* A caller of CalculateMinimumWinningBidCents alone: its slice and the bidder
\* its winner pointer points at, << >> for nil.
InitMinimum(input) ==
    /\ op = "CalculateMinimumWinningBidCents"
    /\ maxRounds = 0
    /\ slices = [caller |-> input[1], working |-> << >>, winner |-> input[2]]
    /\ rounds = 0
    /\ pc = "minimum"
    /\ engineCalled = FALSE
    /\ incremented = "none"
    /\ result = NilResult
    /\ err = NoError
    /\ conv = NoConversion

\* Slices of up to two bidders as NewBidder builds them.
MinimumProfiles == { <<0, 10, 10>>, <<10, 20, 10>> }

MinimumLists ==
    {MakeBidders(ps, "asc", "unique") : ps \in UNION {[1..n -> MinimumProfiles] : n \in 0..2}}

\* A bidder with an ID that no slice holds.
Outsider == NewBidder("outsider", "name", 10, 20, 10, NowTime)

\* <<bidders, winner>>: no winner, an element of the slice, or the outsider.
MinimumInputs ==
    {<<bidders, winner>> :
        bidders \in MinimumLists,
        winner \in {<< >>, <<Outsider>>}
                      \cup {<<b>> : b \in UNION {{l[i] : i \in 1..Len(l)} : l \in MinimumLists}}}

\* DetermineWinner on a service whose engine is a MockEngine, named by the
\* flag set in it: shouldReturnError, shouldReturnError with
\* shouldReturnNonAuction, shouldReturnNilResult, or none.
MockEngines ==
    {"MockEngine.Error", "MockEngine.NonAuctionError", "MockEngine.NilResult", "MockEngine.Result"}

\* DetermineWinner on a service whose validator is a MockValidator that
\* returns an error, an AuctionError or (shouldReturnNonAuction) a plain one;
\* its engine is a MockEngine with no flag set.
MockValidators == {"MockValidator.Error", "MockValidator.NonAuctionError"}

\* The services of the tests: a MockValidator that fails, or a MockValidator
\* that returns nil in front of one of the MockEngines.
MockServices == MockValidators \cup MockEngines

\* The slices handed to a mock service: Bidder literals that name the five
\* parameters and EntryTime: time.Now(), one of them or two, the second read
\* of the clock at the instant of the first or after it.
MockBidder(id, name, now) ==
    [BidderLiteral(id, name, 100000, 200000, 10000) EXCEPT !.EntryTime = now]

MockInputs ==
    { << MockBidder("bidder1", "Alice", NowTime) >> }
    \cup { << MockBidder("bidder1", "Alice", NowTime),
              MockBidder("bidder2", "Bob", NowTime + tick) >> : tick \in {0, 1} }

InitMock(service, input) ==
    /\ op = service
    /\ maxRounds = 0
    /\ slices = [caller |-> input, working |-> << >>, winner |-> << >>]
    /\ rounds = 0
    /\ pc = "call"
    /\ engineCalled = FALSE
    /\ incremented = "none"
    /\ result = NilResult
    /\ err = NoError
    /\ conv = NoConversion

Conversions == {"DollarsToCents", "CentsToDollars"}

ConversionInputs == (-MaxMills)..MaxMills

Init ==
    \/ \E call \in Calls, input \in InputLists : InitWith(call, input)
    \/ \E input \in SingleBidders : InitBidder(input)
    \/ \E input \in ValidatorInputs : InitValidate(input)
    \/ \E call \in Conversions, x \in ConversionInputs : InitConvert(call, x)
    \/ \E input \in MinimumInputs : InitMinimum(input)
    \/ \E service \in MockServices, input \in MockInputs : InitMock(service, input)

----------------------------------------------------------------------------
(* DollarsToCents and CentsToDollars, called by a caller of the models       *)
(* package, which converts the value back as the round-trip tests do.        *)

ConvertCall ==
    /\ pc = "convert"
    /\ conv' = IF op = "DollarsToCents"
               THEN [conv EXCEPT !.value = DollarsToCents(conv.arg),
                                 !.back = CentsToDollars(DollarsToCents(conv.arg))]
               ELSE [conv EXCEPT !.value = CentsToDollars(conv.arg),
                                 !.back = DollarsToCents(CentsToDollars(conv.arg))]
    /\ pc' = "done"
    /\ UNCHANGED <<op, maxRounds, slices, rounds, engineCalled, incremented, result, err>>

----------------------------------------------------------------------------
(* BiddingEngine.CalculateMinimumWinningBidCents, called by a caller of the  *)
(* engine; conv.value holds the amount it returned.                          *)

MinimumCall ==
    /\ pc = "minimum"
    /\ LET m == CalculateMinimumWinningBidCents(inputBidders, slices["winner"])
       IN /\ conv' = [conv EXCEPT !.value = m.cents]
          /\ err' = m.err
    /\ pc' = "done"
    /\ UNCHANGED <<op, maxRounds, slices, rounds, engineCalled, incremented, result>>

----------------------------------------------------------------------------
(* Bidder.Increment, called by a caller of the models package. *)

IncrementCall ==
    /\ pc = "bidder"
    /\ rounds < MaxCalls
    /\ LET r == Increment(workingBidders[1])
       IN /\ slices' = [slices EXCEPT ![WorkingArray] = <<r.b>>]
          /\ incremented' = IF r.ok THEN "true" ELSE "false"
    /\ rounds' = rounds + 1
    /\ UNCHANGED <<conv, op, maxRounds, pc, engineCalled, result, err>>

----------------------------------------------------------------------------
(* DefaultBidValidator.ValidateBidders, called by a caller of the validator. *)

ValidateCall ==
    /\ pc = "validate"
    /\ err' = ValidateBidders(inputBidders)
    /\ pc' = "done"
    /\ UNCHANGED <<conv, op, maxRounds, slices, rounds, engineCalled, incremented, result>>

----------------------------------------------------------------------------
(* AuctionService.DetermineWinner, before the engine runs. *)

\* as.validator.ValidateBidders(bidders): the DefaultBidValidator of
\* NewAuctionService, or the MockValidator of a mock service.
ServiceValidation ==
    IF op = "MockValidator.NonAuctionError" THEN NewPlainError
    ELSE IF op = "MockValidator.Error" THEN NewAuctionError("validation", "")
    ELSE IF op \in MockEngines THEN NoError
    ELSE ValidateBidders(inputBidders)

\* DetermineWinner going on to the engine although the validator failed.
ValidationIgnored ==
    /\ pc = "call"
    /\ ServiceValidation # NoError
    /\ pc' = "engine"
    /\ UNCHANGED <<conv, op, maxRounds, slices, rounds, engineCalled, incremented, result, err>>

\* The validator's error, its operation reset if it is an AuctionError, and
\* otherwise wrapped as the cause of a new validation error.
ValidationFails ==
    /\ pc = "call"
    /\ ServiceValidation # NoError
    /\ err' = IF IsAuctionError(ServiceValidation)
              THEN << [ServiceValidation[1]
                          EXCEPT !.Operation = "DetermineWinner.Validation"] >>
                   \o Tail(ServiceValidation)
              ELSE NewAuctionErrorWithCause(
                       "validation", "DetermineWinner.Validation", ServiceValidation)
    /\ result' = NilResult
    /\ pc' = "done"
    /\ UNCHANGED <<conv, op, maxRounds, slices, rounds, engineCalled, incremented>>

ValidationPasses ==
    /\ pc = "call"
    /\ ServiceValidation = NoError
    /\ pc' = "engine"
    /\ UNCHANGED <<conv, op, maxRounds, slices, rounds, engineCalled, incremented, result, err>>

----------------------------------------------------------------------------
(* BiddingEngine.ProcessBids. *)

ProcessBidsEmpty ==
    /\ pc = "engine"
    /\ op \notin MockServices
    /\ Len(inputBidders) = 0
    /\ engineCalled' = TRUE
    /\ result' = NewBidResult(0, 0, 0, 0, "caller")
    /\ slices' = [slices EXCEPT !["caller"] = SyncAll(@)]
    /\ err' = NoError
    /\ pc' = AfterEngine
    /\ UNCHANGED <<conv, op, maxRounds, rounds, incremented>>

\* The copy, the reinitialisation and the sort.
ProcessBidsStart ==
    /\ pc = "engine"
    /\ op \notin MockServices
    /\ Len(inputBidders) # 0
    /\ engineCalled' = TRUE
    /\ \E sorted \in SortOutcomes(Reinitialize(inputBidders)) :
          slices' = [slices EXCEPT ![WorkingArray] = sorted]
    /\ rounds' = 0
    /\ pc' = "loop"
    /\ UNCHANGED <<conv, op, maxRounds, incremented, result, err>>

\* One iteration of the round loop whose IncrementBids fails.
RoundFails ==
    /\ pc = "loop"
    /\ rounds < maxRounds
    /\ LET r == IncrementBids(workingBidders)
       IN /\ r.err # NoError
          /\ slices' = [slices EXCEPT ![WorkingArray] = r.bidders]
          /\ err' = NewProcessingErrorWithCause("ProcessBids.IncrementBids", r.err)
    /\ result' = NilResult
    /\ pc' = AfterEngine
    /\ UNCHANGED <<conv, op, maxRounds, rounds, engineCalled, incremented>>

\* One iteration that incremented somebody, in a loop without the round cap
\* in its condition.
RoundIncrementsUncapped ==
    /\ pc = "loop"
    /\ LET r == IncrementBids(workingBidders)
       IN /\ r.err = NoError
          /\ r.incremented
          /\ slices' = [slices EXCEPT ![WorkingArray] = r.bidders]
    /\ rounds' = rounds + 1
    /\ UNCHANGED <<conv, op, maxRounds, pc, engineCalled, incremented, result, err>>

\* One iteration that incremented somebody: rounds++ and around again.
RoundIncrements ==
    /\ pc = "loop"
    /\ rounds < maxRounds
    /\ LET r == IncrementBids(workingBidders)
       IN /\ r.err = NoError
          /\ r.incremented
          /\ slices' = [slices EXCEPT ![WorkingArray] = r.bidders]
    /\ rounds' = rounds + 1
    /\ UNCHANGED <<conv, op, maxRounds, pc, engineCalled, incremented, result, err>>

\* One iteration that breaks whether or not it incremented somebody.
RoundBreaksAfterOnePass ==
    /\ pc = "loop"
    /\ rounds < maxRounds
    /\ LET r == IncrementBids(workingBidders)
       IN /\ r.err = NoError
          /\ slices' = [slices EXCEPT ![WorkingArray] = r.bidders]
    /\ pc' = "resolve"
    /\ UNCHANGED <<conv, op, maxRounds, rounds, engineCalled, incremented, result, err>>

\* One iteration that incremented nobody, counted as a round before the break.
RoundStableCounted ==
    /\ pc = "loop"
    /\ rounds < maxRounds
    /\ LET r == IncrementBids(workingBidders)
       IN /\ r.err = NoError
          /\ ~r.incremented
          /\ slices' = [slices EXCEPT ![WorkingArray] = r.bidders]
    /\ rounds' = rounds + 1
    /\ pc' = "resolve"
    /\ UNCHANGED <<conv, op, maxRounds, engineCalled, incremented, result, err>>

\* One iteration that incremented nobody: break.
RoundStable ==
    /\ pc = "loop"
    /\ rounds < maxRounds
    /\ LET r == IncrementBids(workingBidders)
       IN /\ r.err = NoError
          /\ ~r.incremented
          /\ slices' = [slices EXCEPT ![WorkingArray] = r.bidders]
    /\ pc' = "resolve"
    /\ UNCHANGED <<conv, op, maxRounds, rounds, engineCalled, incremented, result, err>>

\* The loop condition fails, and the check after the loop returns the timeout.
Timeout ==
    /\ pc = "loop"
    /\ ~(rounds < maxRounds)
    /\ rounds >= maxRounds
    /\ err' = NewTimeoutError("ProcessBids")
    /\ result' = NilResult
    /\ pc' = AfterEngine
    /\ UNCHANGED <<conv, op, maxRounds, slices, rounds, engineCalled, incremented>>

FindWinnerFails ==
    /\ pc = "resolve"
    /\ ~(rounds >= maxRounds)
    /\ findWinner(workingBidders).err # NoError
    /\ err' = NewProcessingErrorWithCause("ProcessBids.FindWinner", findWinner(workingBidders).err)
    /\ result' = NilResult
    /\ pc' = AfterEngine
    /\ UNCHANGED <<conv, op, maxRounds, slices, rounds, engineCalled, incremented>>

\* The winner is found: the minimum winning bid and the result, or the
\* failure of the minimum winning bid.
Resolve ==
    /\ pc = "resolve"
    /\ ~(rounds >= maxRounds)
    /\ findWinner(workingBidders).err = NoError
    /\ LET winner == findWinner(workingBidders).winner
           total == Len(inputBidders)
       IN IF winner = 0
          THEN /\ result' = NewBidResult(0, 0, total, rounds, WorkingArray)
               /\ slices' = [slices EXCEPT ![WorkingArray] = SyncAll(@)]
               /\ err' = NoError
          ELSE LET m == CalculateMinimumWinningBidCents(
                            workingBidders, <<workingBidders[winner]>>)
               IN IF m.err # NoError
                  THEN /\ err' = NewProcessingErrorWithCause("ProcessBids.CalculateMinimumWinningBidCents", m.err)
                       /\ result' = NilResult
                       /\ UNCHANGED slices
                  ELSE /\ result' = NewBidResultFromCents(
                                        winner, m.cents, total, rounds, WorkingArray)
                       /\ slices' = [slices EXCEPT ![WorkingArray] = SyncAll(@)]
                       /\ err' = NoError
    /\ pc' = AfterEngine
    /\ UNCHANGED <<conv, op, maxRounds, rounds, engineCalled, incremented>>

----------------------------------------------------------------------------
(* MockEngine.ProcessBids. *)

MockProcessBids ==
    /\ pc = "engine"
    /\ op \in MockEngines
    /\ IF op = "MockEngine.NonAuctionError"
       THEN /\ err' = NewPlainError
            /\ result' = NilResult
            /\ UNCHANGED slices
       ELSE IF op = "MockEngine.Error"
       THEN /\ err' = NewAuctionError("processing", "")
            /\ result' = NilResult
            /\ UNCHANGED slices
       ELSE IF op = "MockEngine.NilResult"
       THEN /\ err' = NoError
            /\ result' = NilResult
            /\ UNCHANGED slices
       ELSE /\ err' = NoError
            /\ result' = NewBidResult(1, inputBidders[1].StartingBid,
                                      Len(inputBidders), 0, "caller")
            /\ slices' = [slices EXCEPT !["caller"] = SyncAll(@)]
    /\ pc' = "returned"
    /\ UNCHANGED <<conv, op, maxRounds, rounds, engineCalled, incremented>>

----------------------------------------------------------------------------
(* AuctionService.DetermineWinner, after the engine has returned. *)

\* The return of DetermineWinner without the check for a nil result.
ServiceReturnsUnchecked ==
    /\ pc = "returned"
    /\ IF err # NoError
       THEN /\ err' = IF IsAuctionError(err)
                      THEN << [err[1] EXCEPT !.Operation = "DetermineWinner.Processing"] >>
                           \o Tail(err)
                      ELSE NewAuctionErrorWithCause(
                               "processing", "DetermineWinner.Processing", err)
            /\ result' = NilResult
       ELSE UNCHANGED <<result, err>>
    /\ pc' = "done"
    /\ UNCHANGED <<conv, op, maxRounds, slices, rounds, engineCalled, incremented>>

ServiceReturns ==
    /\ pc = "returned"
    /\ IF err # NoError
       THEN /\ err' = IF IsAuctionError(err)
                      THEN << [err[1] EXCEPT !.Operation = "DetermineWinner.Processing"] >>
                           \o Tail(err)
                      ELSE NewAuctionErrorWithCause(
                               "processing", "DetermineWinner.Processing", err)
            /\ result' = NilResult
       ELSE IF result.nil
            THEN /\ err' = NewAuctionError("processing",
                                           "DetermineWinner.ResultValidation")
                 /\ result' = NilResult
            ELSE UNCHANGED <<result, err>>
    /\ pc' = "done"
    /\ UNCHANGED <<conv, op, maxRounds, slices, rounds, engineCalled, incremented>>

----------------------------------------------------------------------------

Next ==
    \/ ConvertCall
    \/ MinimumCall
    \/ IncrementCall
    \/ ValidateCall
    \/ ValidationFails
    \/ ValidationPasses
    \/ ProcessBidsEmpty
    \/ ProcessBidsStart
    \/ RoundFails
    \/ RoundIncrements
    \/ RoundStable
    \/ Timeout
    \/ FindWinnerFails
    \/ Resolve
    \/ MockProcessBids
    \/ ServiceReturns

Spec == Init /\ [][Next]_vars

----------------------------------------------------------------------------
(* The engine NewBiddingEngine builds, on auctions with many rounds. *)

\* Profile lists with dollar amounts beyond MaxCents cents: two bidders one
\* cent apart that outbid each other two cents at a time up to 10.01; an
\* increment of 0.004 dollars, which is zero cents; a zero increment; the
\* scenarios of the tests (100/300/25 against 110/250/20, 10/15/1 against
\* 10/20/1); no bidders; a negative starting bid, alone and with a rival.
DefaultCapProfileLists ==
    { << <<0, 10010, 20>>, <<10, 10010, 20>> >>,
      << <<0, 10, 4>>, <<10, 10, 10>> >>,
      << <<0, 10, 0>>, <<10, 10, 10>> >>,
      << <<100000, 300000, 25000>>, <<110000, 250000, 20000>> >>,
      << <<10000, 15000, 1000>>, <<10000, 20000, 1000>> >>,
      << >>,
      << <<-10, 10, 10>> >>,
      << <<-10, 10, 10>>, <<10, 10, 10>> >> }

\* Thirteen bidders, one more than sort.Slice sorts by insertion: two at
\* 0.01, which they cannot leave, and eleven at 0.00.
LongProfileList ==
    [i \in 1..13 |-> IF i <= 2 THEN <<10, 10, 10>> ELSE <<0, 0, 10>>]

DefaultCapInputs ==
    {MakeBidders(ps, order, "unique") :
        ps \in DefaultCapProfileLists, order \in EntryOrders}
    \cup {MakeBidders(LongProfileList, "front", "unique")}

DefaultCapCalls ==
    { <<"DetermineWinner", DefaultMaxRounds>>,
      <<"ProcessBids", DefaultMaxRounds>> }

\* Amounts the conversion tests convert and a large amount, negated too.
DefaultCapConversionInputs ==
    {s * x : s \in {-1, 1},
             x \in {0, 1, 4, 5, 6, 10, 999, 1000, 1004, 1005, 1006, 1230,
                    10004, 10005, 12340, 123450, 99999990}}

InitDefaultCap ==
    \/ \E call \in DefaultCapCalls, input \in DefaultCapInputs : InitWith(call, input)
    \/ \E input \in {MakeBidders(<<ps[1]>>, "asc", "unique") :
                        ps \in DefaultCapProfileLists \ {<< >>}} : InitBidder(input)
    \/ \E input \in DefaultCapInputs : InitValidate(input)
    \/ \E call \in Conversions, x \in DefaultCapConversionInputs : InitConvert(call, x)
    \/ \E input \in MinimumInputs : InitMinimum(input)
    \/ \E service \in MockServices, input \in MockInputs : InitMock(service, input)

SpecDefaultCap == InitDefaultCap /\ [][Next]_vars

----------------------------------------------------------------------------
(* Termination: calls on lists of up to FairMaxBidders bidders, where every   *)
(* call comes to its end within a few rounds, and ProcessBids on an engine   *)
(* with the small cap given lists whose rounds never come to rest.           *)

FairMaxBidders == 2

\* Triples the validator accepts, of bidders that can take one step or two,
\* and the triples of OtherProfiles.
FairProfiles ==
    { <<0, 10, 10>>, <<0, 20, 10>>, <<10, 20, 10>> } \cup OtherProfiles

FairInputs ==
    {MakeBidders(ps, order, "unique") :
        ps \in UNION {[1..n -> FairProfiles] : n \in 0..FairMaxBidders},
        order \in {"asc", "desc"}}

\* Lists with an increment of zero cents below a rival: 0.004 dollars, which
\* the validator accepts, and 0, which it rejects.
StallingProfileLists ==
    { << <<0, 10, 4>>, <<10, 10, 10>> >>,
      << <<0, 10, 0>>, <<10, 10, 10>> >> }

StallingInputs ==
    {MakeBidders(ps, order, "unique") :
        ps \in StallingProfileLists, order \in EntryOrders}

\* Lists whose bidders a caller has used before the call: two bidders that
\* outbid each other, two of which the first can take one step only, and a
\* single bidder.
UsedProfileLists ==
    { << <<0, 20, 10>>, <<10, 20, 10>> >>,
      << <<0, 10, 10>>, <<10, 20, 10>> >>,
      << <<0, 20, 10>> >> }

\* The slice after the caller has called Increment ns[i] times on element i.
Used(bidders, ns) == [i \in 1..Len(bidders) |-> AfterCalls(bidders[i], ns[i])]

UsedInputs ==
    UNION {{Used(MakeBidders(ps, order, "unique"), ns) :
               ns \in [1..Len(ps) -> 0..MaxCalls]} :
           ps \in UsedProfileLists, order \in {"asc", "desc"}}

InitFair ==
    \/ \E call \in Calls, input \in FairInputs \cup UsedInputs : InitWith(call, input)
    \/ \E input \in StallingInputs : InitWith(<<"ProcessBids", TestMaxRounds>>, input)
    \/ \E input \in SingleBidders : InitBidder(input)
    \/ \E input \in StallingInputs : InitValidate(input)
    \/ \E call \in Conversions, x \in DefaultCapConversionInputs : InitConvert(call, x)
    \/ \E input \in MinimumInputs : InitMinimum(input)
    \/ \E service \in MockServices, input \in MockInputs : InitMock(service, input)

\* A call is one goroutine running its statements in order: a step that can
\* be taken is taken.
SpecFair == InitFair /\ [][Next]_vars /\ WF_vars(Next)

----------------------------------------------------------------------------
(* Vocabulary of the properties. *)

\* ProcessBids has returned: to DetermineWinner, or to its own caller.
ProcessBidsReturned ==
    engineCalled /\ (pc = "returned" \/ (pc = "done" /\ op = "ProcessBids"))

ProcessBidsSucceeded == ProcessBidsReturned /\ err = NoError /\ ~result.nil

IsTimeout(e) == e # NoError /\ e[1].Type = "timeout"

\* The slice and the bidder a returned result points at.
ResultBidders == slices[result.AllBidders]

ResultWinner == ResultBidders[result.Winner]

\* The validator accepts the caller's slice.
InputValid == ValidateBidders(inputBidders) = NoError

\* ... and every increment is at least one cent.
InputValidInCents ==
    /\ InputValid
    /\ \A i \in 1..Len(inputBidders) : DollarsToCents(inputBidders[i].AutoIncrement) >= 1

DistinctEntryTimes(bs) ==
    \A i, j \in 1..Len(bs) : i # j => bs[i].EntryTime # bs[j].EntryTime

\* A bidder built with startingBid <= maxBid and autoIncrement > 0.
BuiltValid(b) == b.StartingBid <= b.MaxBid /\ b.AutoIncrement > 0

MaxOf(S) == CHOOSE x \in S : \A y \in S : y <= x

CeilDiv(a, b) == (a + b - 1) \div b

\* ceil((maxBid - startingBid) / autoIncrement) of a bidder, in cents.
CeilRatio(b) == CeilDiv(b.maxBidCents - b.startingBidCents, b.autoIncrementCents)

RECURSIVE SumCeilRatio(_, _)
SumCeilRatio(bs, i) ==
    IF i > Len(bs) THEN 0 ELSE CeilRatio(bs[i]) + SumCeilRatio(bs, i + 1)

\* The highest current bid of a non-empty list.
HighestBid(bs) == MaxOf({bs[i].currentBidCents : i \in 1..Len(bs)})

\* Some bidder strictly below the highest bid can still increment.
Unstable(bs) ==
    \E i \in 1..Len(bs) : bs[i].currentBidCents < HighestBid(bs) /\ CanIncrement(bs[i])

\* The price C3 states for winner w of bs: the starting bid without rivals,
\* otherwise the highest maxBid of the others plus the winner's increment,
\* at most the winner's maxBid and at least its startingBid.
StatedMinimum(bs, w) ==
    LET others == {j \in 1..Len(bs) : j # w}
    IN IF others = {} THEN bs[w].startingBidCents
       ELSE LET S == MaxOf({bs[j].maxBidCents : j \in others})
                raised == S + bs[w].autoIncrementCents
                capped == IF raised > bs[w].maxBidCents THEN bs[w].maxBidCents ELSE raised
            IN IF capped < bs[w].startingBidCents THEN bs[w].startingBidCents ELSE capped

----------------------------------------------------------------------------
(* C1..C10 *)

C1_Range ==
    \A i \in 1..Len(workingBidders) :
        BuiltValid(workingBidders[i]) =>
            /\ workingBidders[i].startingBidCents <= workingBidders[i].currentBidCents
            /\ workingBidders[i].currentBidCents <= workingBidders[i].maxBidCents

C1_Step ==
    Len(workingBidders') = Len(workingBidders) =>
        \A i \in 1..Len(workingBidders) :
            BuiltValid(workingBidders[i]) =>
                /\ workingBidders'[i].currentBidCents >= workingBidders[i].currentBidCents
                /\ workingBidders'[i].currentBidCents # workingBidders[i].currentBidCents
                      => workingBidders[i].IsActive

\* C1: every bidder built with startingBid <= maxBid and autoIncrement > 0
\* has startingBid <= currentBid <= maxBid in every state of ProcessBids and
\* after every Increment call; no step lowers its currentBid, and a step
\* changes it only if the bidder was active before the step.
C1_BidBoundedAndMonotone == []C1_Range /\ [][C1_Step]_vars

\* A valid bidder that ProcessBids has raised from its starting bid to its
\* maximum, where it went inactive.
C1_Witness ==
    /\ op = "ProcessBids"
    /\ pc = "loop"
    /\ \E i \in 1..Len(workingBidders) :
          /\ BuiltValid(workingBidders[i])
          /\ workingBidders[i].currentBidCents > workingBidders[i].startingBidCents
          /\ workingBidders[i].currentBidCents = workingBidders[i].maxBidCents
          /\ ~workingBidders[i].IsActive

\* C2: in every result ProcessBids returns for a non-empty list with
\* pairwise distinct entry times, the winner's final currentBid is the
\* highest of all, and every other bidder with that bid entered later,
\* whatever the order of the input slice.
C2_WinnerHighestThenEarliest ==
    (ProcessBidsSucceeded /\ Len(inputBidders) > 0 /\ DistinctEntryTimes(inputBidders)) =>
        /\ result.Winner \in 1..Len(ResultBidders)
        /\ \A j \in 1..Len(ResultBidders) :
              /\ ResultBidders[j].currentBidCents <= ResultWinner.currentBidCents
              /\ (j # result.Winner
                  /\ ResultBidders[j].currentBidCents = ResultWinner.currentBidCents)
                    => ResultWinner.EntryTime < ResultBidders[j].EntryTime

\* Two bidders end on the same highest bid, the slice listed the later
\* entrant first, and the earlier entrant won.
C2_Witness ==
    /\ ProcessBidsSucceeded
    /\ Len(inputBidders) = 2
    /\ inputBidders[1].EntryTime > inputBidders[2].EntryTime
    /\ ResultBidders[1].currentBidCents = ResultBidders[2].currentBidCents
    /\ result.BiddingRounds > 0
    /\ ResultWinner.ID = inputBidders[2].ID
    /\ inputBidders[1].ID # inputBidders[2].ID

\* C3: for a list the validator accepts, the winning bid of a result is the
\* winner's startingBid when there is no other bidder, and otherwise the
\* highest maxBid among the other bidders plus the winner's autoIncrement,
\* at most the winner's maxBid and at least its startingBid.
C3_MinimumWinningBidAsStated ==
    (ProcessBidsSucceeded /\ InputValid /\ result.Winner # 0) =>
        result.winningBidCents = StatedMinimum(ResultBidders, result.Winner)

\* C4: in every result with a winner for a list the validator accepts,
\* winner.startingBid <= winningBid <= winner.maxBid.
C4_WinningBidWithinWinnerBounds ==
    (ProcessBidsSucceeded /\ InputValid /\ result.Winner # 0) =>
        /\ ResultWinner.startingBidCents <= result.winningBidCents
        /\ result.winningBidCents <= ResultWinner.maxBidCents
        /\ result.WinningBid = CentsToDollars(result.winningBidCents)

\* A result whose winning bid was capped: a rival's maxBid plus the winner's
\* increment is above the winner's maxBid.
C4_Witness ==
    /\ ProcessBidsSucceeded /\ InputValid /\ result.Winner # 0
    /\ result.winningBidCents = ResultWinner.maxBidCents
    /\ \E j \in 1..Len(ResultBidders) :
          /\ j # result.Winner
          /\ ResultBidders[j].maxBidCents + ResultWinner.autoIncrementCents
                > ResultWinner.maxBidCents

\* C5 as stated: for a list the validator accepts, the rounds executed are
\* at most the largest ceil((maxBid - startingBid) / autoIncrement) of a
\* bidder.
C5_RoundsAtMostLargestRatio ==
    (engineCalled /\ Len(inputBidders) > 0 /\ InputValidInCents) =>
        rounds <= MaxOf({CeilRatio(workingBidders[i]) : i \in 1..Len(workingBidders)})

\* C5 amended: for a list the validator accepts whose increments are at
\* least one cent, the rounds executed are at most the sum over the bidders
\* of ceil((maxBid - startingBid) / autoIncrement).
C5_RoundsAtMostSumOfRatios ==
    (engineCalled /\ Len(inputBidders) > 0 /\ InputValidInCents) =>
        rounds <= SumCeilRatio(workingBidders, 1)

\* A result whose round count is above the largest ratio of a bidder.
C5_Witness ==
    /\ ProcessBidsSucceeded /\ InputValidInCents
    /\ Len(ResultBidders) > 0
    /\ result.BiddingRounds
          > MaxOf({CeilRatio(ResultBidders[i]) : i \in 1..Len(ResultBidders)})

\* C6: with the default cap, ProcessBids on a non-empty list the validator
\* accepts never returns the timeout and leaves the loop with rounds below
\* the cap.
C6_ValidInputNeverTimesOut ==
    (ProcessBidsReturned /\ maxRounds = DefaultMaxRounds
        /\ Len(inputBidders) > 0 /\ InputValid) =>
        /\ ~IsTimeout(err)
        /\ rounds < maxRounds

\* C7: ProcessBids returns the timeout (and no result) exactly when, after
\* maxRounds incrementing rounds, some bidder strictly below the highest bid
\* could still increment.
C7_TimeoutIffStillUnstable ==
    (ProcessBidsReturned /\ Len(inputBidders) > 0) =>
        /\ IsTimeout(err) => result.nil
        /\ IsTimeout(err) <=> (rounds = maxRounds /\ Unstable(workingBidders))

\* C8: ProcessBids on an empty list returns no error and a result with no
\* winner, winning bid 0, 0 bidders and 0 rounds; DetermineWinner on an
\* empty list returns no result and a validation error, and the engine has
\* not run.
C8_EmptyList ==
    (pc = "done" /\ Len(inputBidders) = 0) =>
        /\ op = "ProcessBids" =>
              /\ err = NoError
              /\ ~result.nil
              /\ result.Winner = 0
              /\ result.WinningBid = 0 /\ result.winningBidCents = 0
              /\ result.TotalBidders = 0
              /\ result.BiddingRounds = 0
        /\ op = "DetermineWinner" =>
              /\ result.nil
              /\ err # NoError /\ err[1].Type = "validation"
              /\ ~engineCalled

\* DetermineWinner has returned on an empty list.
C8_Witness ==
    pc = "done" /\ Len(inputBidders) = 0 /\ op = "DetermineWinner" /\ err # NoError

\* C9: on a list of exactly one bidder the validator accepts, ProcessBids
\* runs zero rounds, the bidder's currentBid stays at its startingBid, and
\* the result names it the winner with winningBid equal to its startingBid.
C9_SingleBidder ==
    (engineCalled /\ Len(inputBidders) = 1 /\ InputValid) =>
        /\ rounds = 0
        /\ workingBidders[1].currentBidCents = DollarsToCents(inputBidders[1].StartingBid)
        /\ ProcessBidsReturned =>
              /\ err = NoError /\ ~result.nil
              /\ result.BiddingRounds = 0
              /\ result.Winner = 1
              /\ ResultWinner.ID = inputBidders[1].ID
              /\ result.winningBidCents = ResultWinner.startingBidCents
              /\ result.WinningBid = CentsToDollars(ResultWinner.startingBidCents)

\* A single bidder with room to increment has won at its starting bid.
C9_Witness ==
    /\ ProcessBidsSucceeded /\ Len(inputBidders) = 1 /\ InputValid
    /\ CanIncrement(ResultWinner)
    /\ ResultWinner.startingBidCents > 0

\* C10: no step of a call of BiddingEngine.ProcessBids, made directly or by
\* DetermineWinner, changes the caller's slice: every element keeps its field
\* values and its position.
C10_CallerSliceUnchanged ==
    [][(op \in {"ProcessBids", "DetermineWinner"}) => inputBidders' = inputBidders]_vars

\* ProcessBids has returned a result whose working copy differs from the
\* caller's slice in order and in current bids.
C10_Witness ==
    /\ ProcessBidsSucceeded
    /\ result.BiddingRounds > 0
    /\ Len(inputBidders) = 2
    /\ inputBidders[1].ID # ResultBidders[1].ID
    /\ \E i \in 1..2 : ResultBidders[i].currentBidCents # ResultBidders[i].startingBidCents

----------------------------------------------------------------------------
(* C11..C20 *)

\* A call has returned to its caller.
CallReturned == pc = "done" /\ op \in {"ProcessBids", "DetermineWinner"}

\* C11: every call of ProcessBids and of DetermineWinner returns exactly one
\* of a non-nil result and a non-nil error.
C11_ResultXorError ==
    (CallReturned \/ ProcessBidsReturned) => (result.nil <=> err # NoError)

\* ProcessBids has failed after rounds of increments and returned no result.
C11_Witness ==
    /\ CallReturned /\ op = "ProcessBids"
    /\ rounds > 0
    /\ err # NoError
    /\ result.nil

\* C12: in a call of DetermineWinner the engine's ProcessBids has been
\* entered only if ValidateBidders returns no error for the caller's slice;
\* when it returns an error the call ends with the engine never entered, no
\* result, and a validation error whose operation is
\* DetermineWinner.Validation.
C12_ValidateBeforeProcess ==
    op = "DetermineWinner" =>
        /\ engineCalled => ValidateBidders(inputBidders) = NoError
        /\ (pc = "done" /\ ValidateBidders(inputBidders) # NoError) =>
              /\ ~engineCalled
              /\ result.nil
              /\ err # NoError
              /\ err[1].Type = "validation"
              /\ err[1].Operation = "DetermineWinner.Validation"

\* DetermineWinner has returned the validation failure of a non-empty list,
\* and the engine has not run.
C12_Witness ==
    /\ op = "DetermineWinner" /\ pc = "done"
    /\ Len(inputBidders) > 0
    /\ ValidateBidders(inputBidders) # NoError
    /\ ~engineCalled
    /\ err # NoError /\ err[1].Operation = "DetermineWinner.Validation"

\* C13: when the engine has exceeded its round cap in a call of
\* DetermineWinner, the error DetermineWinner returns has type timeout.
C13_TimeoutTypeAtService ==
    (op = "DetermineWinner" /\ pc = "done" /\ engineCalled /\ rounds >= maxRounds) =>
        /\ err # NoError
        /\ err[1].Type = "timeout"

\* Two bidders with identical startingBid, maxBid and autoIncrement
\* (startingBid <= maxBid, autoIncrement > 0) and different entry times.
IdenticalPair(bs) ==
    /\ Len(bs) = 2
    /\ bs[1].StartingBid = bs[2].StartingBid
    /\ bs[1].MaxBid = bs[2].MaxBid
    /\ bs[1].AutoIncrement = bs[2].AutoIncrement
    /\ bs[1].StartingBid <= bs[1].MaxBid
    /\ bs[1].AutoIncrement > 0
    /\ bs[1].EntryTime # bs[2].EntryTime

\* The one of two bidders that entered first.
EarlierOf(bs) == IF bs[1].EntryTime < bs[2].EntryTime THEN bs[1] ELSE bs[2]

\* C14 as stated: for two identical bidders with different entry times,
\* ProcessBids performs no increments, the earlier entrant wins, and the
\* winning bid is the common startingBid.
C14_TieWinsAtStartingBid ==
    (ProcessBidsReturned /\ IdenticalPair(inputBidders)) =>
        /\ err = NoError /\ ~result.nil
        /\ rounds = 0 /\ result.BiddingRounds = 0
        /\ result.Winner # 0
        /\ ResultWinner.ID = EarlierOf(inputBidders).ID
        /\ result.winningBidCents = ResultWinner.startingBidCents

\* C14 amended: for two identical bidders with distinct IDs, a non-negative
\* startingBid and different entry times, ProcessBids performs no
\* increments, the earlier entrant wins with its currentBid at the common
\* startingBid, and the winning bid is the common maxBid.
C14_TieWinsAtMaxBid ==
    (ProcessBidsReturned /\ IdenticalPair(inputBidders)
        /\ inputBidders[1].ID # inputBidders[2].ID
        /\ inputBidders[1].StartingBid >= 0) =>
        /\ err = NoError /\ ~result.nil
        /\ rounds = 0 /\ result.BiddingRounds = 0
        /\ result.Winner # 0
        /\ ResultWinner.ID = EarlierOf(inputBidders).ID
        /\ ResultWinner.currentBidCents = ResultWinner.startingBidCents
        /\ result.winningBidCents = ResultWinner.maxBidCents

\* Two identical bidders with room below their maximum, the later entrant
\* listed first: the earlier one has won at the maximum, above its start.
C14_Witness ==
    /\ ProcessBidsSucceeded /\ IdenticalPair(inputBidders)
    /\ inputBidders[1].ID # inputBidders[2].ID
    /\ inputBidders[1].StartingBid >= 0
    /\ inputBidders[1].EntryTime > inputBidders[2].EntryTime
    /\ ResultWinner.ID = inputBidders[2].ID
    /\ result.winningBidCents > ResultWinner.startingBidCents

\* The bidder was built from the <<startingBid, maxBid, autoIncrement>> triple.
HasProfile(b, p) ==
    b.StartingBid = p[1] /\ b.MaxBid = p[2] /\ b.AutoIncrement = p[3]

\* The caller's slice is bidder A with profile pA followed by B with pB.
Scenario(pA, pB) ==
    /\ Len(inputBidders) = 2
    /\ HasProfile(inputBidders[1], pA)
    /\ HasProfile(inputBidders[2], pB)

\* C15: for A (start 100, max 300, increment 25, entered first) and
\* B (start 110, max 250, increment 20), ProcessBids executes at least one
\* round, selects A as winner and returns winningBid 275.
C15_SecondPriceScenario ==
    (ProcessBidsReturned
        /\ Scenario(<<100000, 300000, 25000>>, <<110000, 250000, 20000>>)
        /\ inputBidders[1].EntryTime < inputBidders[2].EntryTime) =>
        /\ err = NoError /\ ~result.nil
        /\ result.BiddingRounds >= 1
        /\ result.Winner # 0
        /\ ResultWinner.ID = inputBidders[1].ID
        /\ result.winningBidCents = 27500
        /\ result.WinningBid = 275000

\* ProcessBids has returned A as winner of the scenario after both bidders
\* have reached 150.
C15_Witness ==
    /\ ProcessBidsSucceeded
    /\ Scenario(<<100000, 300000, 25000>>, <<110000, 250000, 20000>>)
    /\ inputBidders[1].EntryTime < inputBidders[2].EntryTime
    /\ result.BiddingRounds = 4
    /\ ResultWinner.ID = inputBidders[1].ID
    /\ \A i \in 1..2 : ResultBidders[i].currentBidCents = 15000

\* C16: for A (start 10, max 15, increment 1) and B (start 10, max 20,
\* increment 1), whichever of the two entered first, ProcessBids selects B
\* as winner and returns winningBid 16.
C16_CappedScenario ==
    (ProcessBidsReturned
        /\ Scenario(<<10000, 15000, 1000>>, <<10000, 20000, 1000>>)
        /\ inputBidders[1].EntryTime # inputBidders[2].EntryTime) =>
        /\ err = NoError /\ ~result.nil
        /\ result.Winner # 0
        /\ ResultWinner.ID = inputBidders[2].ID
        /\ result.winningBidCents = 1600

\* C17 as stated: there is a bidder set the validator accepts on which
\* ProcessBids of the default engine, once it is in use, succeeds with a
\* winning bid strictly below the winner's final currentBid.
C17_WinningBidMayBeBelowCurrentBid ==
    (engineCalled /\ maxRounds = DefaultMaxRounds) =>
        \E input \in InputLists :
            /\ ValidateBidders(input) = NoError
            /\ LET r == ProcessBidsOn(input, maxRounds)
               IN /\ r.err = NoError
                  /\ r.winner # 0
                  /\ r.winningBidCents < r.bidders[r.winner].currentBidCents

\* C17 amended: in every result with a winner for a list the validator
\* accepts, the winning bid is at least the winner's final currentBid.
C17_WinningBidAtLeastCurrentBid ==
    (ProcessBidsSucceeded /\ InputValid /\ result.Winner # 0) =>
        /\ result.winningBidCents >= ResultWinner.currentBidCents
        /\ result.WinningBid >= ResultWinner.CurrentBid

\* A result, after at least one round, whose winning bid is strictly above
\* the winner's final currentBid.
C17_Witness ==
    /\ ProcessBidsSucceeded /\ InputValid /\ result.Winner # 0
    /\ result.BiddingRounds > 0
    /\ result.winningBidCents > ResultWinner.currentBidCents

\* What ProcessBids has returned is what ProcessBidsOn gives for its argument
\* (a consistency check of the two forms, for the small cap of Spec).
ProcessBidsOnAgrees ==
    ProcessBidsReturned =>
        LET r == ProcessBidsOn(inputBidders, maxRounds)
        IN /\ r.err = err
           /\ r.nil = result.nil
           /\ ~r.nil =>
                 /\ r.winner = result.Winner
                 /\ r.winningBidCents = result.winningBidCents
                 /\ r.rounds = result.BiddingRounds
                 /\ r.bidders = ResultBidders

\* The index of the bidder with the given ID.
PositionOf(bs, id) == CHOOSE k \in 1..Len(bs) : bs[k].ID = id

UniqueIDs(bs) == \A i, j \in 1..Len(bs) : i # j => bs[i].ID # bs[j].ID

\* C18: in every result for a list with pairwise distinct IDs, bidders with
\* equal entryTime are in AllBidders in their input order, and no bidder
\* with the winner's entryTime and final currentBid comes before the winner
\* in the input.
C18_StableTieBreak ==
    (ProcessBidsSucceeded /\ Len(inputBidders) > 0 /\ UniqueIDs(inputBidders)) =>
        /\ \A i, j \in 1..Len(inputBidders) :
              (i < j /\ inputBidders[i].EntryTime = inputBidders[j].EntryTime) =>
                  PositionOf(ResultBidders, inputBidders[i].ID)
                      < PositionOf(ResultBidders, inputBidders[j].ID)
        /\ result.Winner # 0 =>
              \A j \in 1..Len(inputBidders) :
                  (/\ inputBidders[j].EntryTime = ResultWinner.EntryTime
                   /\ ResultBidders[PositionOf(ResultBidders, inputBidders[j].ID)].currentBidCents
                         = ResultWinner.currentBidCents) =>
                      PositionOf(inputBidders, ResultWinner.ID) <= j

\* Some bidder of the caller's slice has a negative startingBid in cents.
SomeNegativeStart ==
    \E i \in 1..Len(inputBidders) : DollarsToCents(inputBidders[i].StartingBid) < 0

\* C19: whenever a bidder handed to ProcessBids has a negative startingBid
\* in cents, whatever the number of bidders and its position, ProcessBids
\* returns an error and no result.
C19_NegativeBidAborts ==
    (ProcessBidsReturned /\ SomeNegativeStart) =>
        /\ err # NoError
        /\ result.nil

\* ProcessBids has failed in its first round on two bidders of which only
\* the second has a negative bid.
C19_Witness ==
    /\ ProcessBidsReturned /\ SomeNegativeStart
    /\ Len(inputBidders) = 2
    /\ DollarsToCents(inputBidders[1].StartingBid) >= 0
    /\ inputBidders[1].EntryTime < inputBidders[2].EntryTime
    /\ rounds = 0
    /\ err # NoError /\ err[1].Operation = "ProcessBids.IncrementBids"
    /\ result.nil

\* The conditions C20 states for a list.
StatedValid(bs) ==
    /\ Len(bs) > 0
    /\ UniqueIDs(bs)
    /\ \A i \in 1..Len(bs) :
          /\ ~Blank(bs[i].ID)
          /\ ~Blank(bs[i].Name)
          /\ bs[i].StartingBid >= 0
          /\ bs[i].MaxBid >= 0
          /\ bs[i].AutoIncrement > 0
          /\ bs[i].StartingBid <= bs[i].MaxBid

\* C20: ValidateBidders returns no error if and only if the list is
\* non-empty, the IDs are pairwise distinct, and every bidder has a
\* non-blank ID and name, startingBid >= 0, maxBid >= 0, autoIncrement > 0
\* and startingBid <= maxBid; otherwise it returns an error of type
\* validation.
C20_ValidateBiddersIff ==
    (op = "ValidateBidders" /\ pc = "done") =>
        /\ err = NoError <=> StatedValid(inputBidders)
        /\ err # NoError => err[1].Type = "validation"

\* ValidateBidders has rejected two bidders that are fine one by one and
\* share their ID.
C20_Witness ==
    /\ op = "ValidateBidders" /\ pc = "done"
    /\ Len(inputBidders) = 2
    /\ inputBidders[1].ID = inputBidders[2].ID
    /\ \A i \in 1..2 : ValidateBidder(inputBidders[i]) = << >>
    /\ err # NoError

----------------------------------------------------------------------------
(* C21..C30 *)

\* How many elements of bs have the ID and entry time of b.
Occurrences(bs, b) ==
    Cardinality({k \in 1..Len(bs) : bs[k].ID = b.ID /\ bs[k].EntryTime = b.EntryTime})

\* C21: in every successful result of ProcessBids on a non-empty list,
\* TotalBidders is the number of input bidders, AllBidders has the input's
\* length and each input bidder as often as the input has it, and its entry
\* times are non-decreasing.
C21_AllBiddersSortedPermutation ==
    (ProcessBidsSucceeded /\ Len(inputBidders) > 0) =>
        /\ result.TotalBidders = Len(inputBidders)
        /\ Len(ResultBidders) = Len(inputBidders)
        /\ \A i \in 1..Len(inputBidders) :
              Occurrences(ResultBidders, inputBidders[i])
                  = Occurrences(inputBidders, inputBidders[i])
        /\ \A k \in 1..(Len(ResultBidders) - 1) :
              ResultBidders[k].EntryTime <= ResultBidders[k + 1].EntryTime

\* A result for two bidders listed latest entrant first: AllBidders has
\* them the other way round.
C21_Witness ==
    /\ ProcessBidsSucceeded /\ Len(inputBidders) = 2
    /\ inputBidders[1].EntryTime > inputBidders[2].EntryTime
    /\ inputBidders[1].ID # inputBidders[2].ID
    /\ ResultBidders[1].ID = inputBidders[2].ID
    /\ ResultBidders[2].ID = inputBidders[1].ID

\* The cents nearest a decimal amount of thousandths of a dollar, halves away
\* from zero.
NearestCentAwayFromZero(x) ==
    IF x >= 0 THEN (x + 5) \div 10 ELSE -((Abs(x) + 5) \div 10)

\* C22: for every decimal amount x, CentsToDollars(DollarsToCents(x)) is
\* within half a cent (0.005) of x and DollarsToCents(x) is the cent nearest
\* x, halves away from zero; for every integer c,
\* DollarsToCents(CentsToDollars(c)) = c.
C22_RoundTripAndTiesAwayFromZero ==
    (pc = "done" /\ op \in Conversions) =>
        IF op = "DollarsToCents"
        THEN /\ Abs(conv.back - conv.arg) <= 5
             /\ conv.value = NearestCentAwayFromZero(conv.arg)
        ELSE conv.back = conv.arg

\* A pass of IncrementBids that returned without an error: an iteration of
\* the round loop that goes around again or breaks.
PassReturned ==
    /\ pc = "loop" /\ rounds < maxRounds
    /\ (pc' = "resolve" \/ rounds' = rounds + 1)

\* C23: a pass of IncrementBids increments, once each, exactly the bidders
\* that at the start of the pass are below the highest bid H of the start of
\* the pass and can increment; every other bidder, a bidder at H that could
\* increment included, is left as it was, whatever was raised before it in
\* the pass.
C23_PassIncrementsLosersOnce ==
    [][PassReturned =>
          /\ Len(workingBidders') = Len(workingBidders)
          /\ \A i \in 1..Len(workingBidders) :
                workingBidders'[i] =
                    IF /\ workingBidders[i].currentBidCents < HighestBid(workingBidders)
                       /\ CanIncrement(workingBidders[i])
                    THEN Increment(workingBidders[i]).b
                    ELSE workingBidders[i]]_vars

\* After the first pass the first bidder has been raised above the second,
\* which was the highest, could increment and still can, and was left alone.
C23_Witness ==
    /\ pc = "loop" /\ rounds = 1 /\ Len(workingBidders) = 2
    /\ workingBidders[1].currentBidCents > workingBidders[1].startingBidCents
    /\ workingBidders[1].currentBidCents > workingBidders[2].currentBidCents
    /\ workingBidders[2].currentBidCents = workingBidders[2].startingBidCents
    /\ workingBidders[2].startingBidCents > workingBidders[1].startingBidCents
    /\ CanIncrement(workingBidders[2])

\* C24: whenever ProcessBids returns a result, no bidder of the result whose
\* current bid is strictly below the highest current bid can increment.
C24_ResultIsStable ==
    ProcessBidsSucceeded => ~Unstable(ResultBidders)

\* A result after at least one round, with an active bidder left below the
\* highest bid and below its maxBid, which its next step would pass.
C24_Witness ==
    /\ ProcessBidsSucceeded /\ result.BiddingRounds >= 1
    /\ \E i \in 1..Len(ResultBidders) :
          /\ ResultBidders[i].currentBidCents < HighestBid(ResultBidders)
          /\ ResultBidders[i].IsActive
          /\ ResultBidders[i].currentBidCents < ResultBidders[i].maxBidCents

\* A call of Increment by a caller of the models package.
IncrementCalled == pc = "bidder" /\ rounds' = rounds + 1

\* C25: CanIncrement is true exactly when the bidder is active and
\* currentBid + autoIncrement <= maxBid; Increment returns true exactly when
\* CanIncrement held before the call, and when it returns false the bidder
\* is as it was before the call.
C25_IncrementIffCanIncrement ==
    [][IncrementCalled =>
          LET b == workingBidders[1]
              room == b.IsActive
                        /\ b.currentBidCents + b.autoIncrementCents <= b.maxBidCents
          IN /\ CanIncrement(b) <=> room
             /\ incremented' = "true" <=> room
             /\ incremented' = "false" <=> ~room
             /\ incremented' = "false" => workingBidders' = workingBidders]_vars

\* Increment has returned false for an active bidder below its maxBid, whose
\* next step would pass it.
C25_Witness ==
    /\ op = "Increment" /\ incremented = "false"
    /\ workingBidders[1].IsActive
    /\ workingBidders[1].currentBidCents < workingBidders[1].maxBidCents

\* C26: after any sequence of Increment calls on a bidder, currentBid is
\* startingBid + k * autoIncrement in cents, k the number of calls that
\* returned true (all of them while the last one returned true, none before
\* the first call); a call that returns true raises currentBid by exactly
\* autoIncrement, and the dollar field follows.
C26_Sum ==
    op = "Increment" =>
        LET b == workingBidders[1]
        IN /\ \E k \in 0..rounds :
                 /\ b.currentBidCents = b.startingBidCents + k * b.autoIncrementCents
                 /\ incremented = "true" => k = rounds
                 /\ incremented = "false" => k < rounds
           /\ b.CurrentBid = CentsToDollars(b.currentBidCents) \/ rounds = 0

C26_Step ==
    (IncrementCalled /\ incremented' = "true") =>
        workingBidders'[1].currentBidCents
            = workingBidders[1].currentBidCents + workingBidders[1].autoIncrementCents

C26_ExactSumOfIncrements == []C26_Sum /\ [][C26_Step]_vars

\* Two calls have returned true and a third false: the bid is two increments
\* above the starting bid.
C26_Witness ==
    /\ op = "Increment" /\ rounds = 3 /\ incremented = "false"
    /\ workingBidders[1].autoIncrementCents > 0
    /\ workingBidders[1].currentBidCents
          = workingBidders[1].startingBidCents + 2 * workingBidders[1].autoIncrementCents

\* C27 as stated: some reachable Increment call returns true and raises
\* currentBid by less than autoIncrement, the clamp having cut the step at
\* maxBid.
C27_SomeIncrementIsShort ==
    (op = "Increment" /\ rounds = MaxCalls) =>
        \E input \in SingleBidders, n \in 0..(MaxCalls - 1) :
            LET b == AfterCalls(input[1], n)
                r == Increment(b)
            IN /\ r.ok
               /\ r.b.currentBidCents = b.maxBidCents
               /\ r.b.currentBidCents - b.currentBidCents < b.autoIncrementCents

C27_Step ==
    Len(workingBidders') = Len(workingBidders) =>
        \A i \in 1..Len(workingBidders) :
            LET b == workingBidders[i]
                after == workingBidders'[i]
            IN /\ after.currentBidCents # b.currentBidCents
                    => after.currentBidCents = b.currentBidCents + b.autoIncrementCents
               /\ (b.IsActive /\ ~after.IsActive)
                    => /\ after.currentBidCents = b.maxBidCents
                       /\ b.currentBidCents + b.autoIncrementCents = b.maxBidCents
               /\ (b.IsActive /\ b.currentBidCents < b.maxBidCents
                    /\ b.currentBidCents + b.autoIncrementCents > b.maxBidCents)
                    => after.currentBidCents = b.currentBidCents

\* C27 amended: no step, of a caller's Increment or of a pass of the engine,
\* raises a currentBid by less than autoIncrement: a bid that changes grows
\* by exactly autoIncrement, the clamp deactivates a bidder only when
\* currentBid + autoIncrement is exactly maxBid, and a bidder whose next step
\* would pass maxBid stays where it is.
C27_EveryIncrementIsAFullStep == [][C27_Step]_vars

\* Increment has returned true on the step that reached maxBid exactly and
\* deactivated the bidder.
C27_Witness ==
    /\ op = "Increment" /\ incremented = "true" /\ rounds >= 1
    /\ ~workingBidders[1].IsActive
    /\ workingBidders[1].autoIncrementCents > 0
    /\ workingBidders[1].currentBidCents = workingBidders[1].maxBidCents
    /\ workingBidders[1].currentBidCents
          = workingBidders[1].startingBidCents + rounds * workingBidders[1].autoIncrementCents

\* C28: a bidder whose currentBid equals its maxBid is inactive: after
\* construction, after any sequence of Increment calls, and in every bidder
\* of a result of ProcessBids.
C28_InactiveAtMaxBid ==
    /\ op = "Increment" =>
          (workingBidders[1].currentBidCents = workingBidders[1].maxBidCents
              => ~workingBidders[1].IsActive)
    /\ ProcessBidsSucceeded =>
          \A i \in 1..Len(ResultBidders) :
              ResultBidders[i].currentBidCents = ResultBidders[i].maxBidCents
                  => ~ResultBidders[i].IsActive

C29_Step ==
    (engineCalled /\ InputValid /\ Len(workingBidders') = Len(workingBidders)) =>
        \A i \in 1..Len(workingBidders) :
            /\ ~CanIncrement(workingBidders[i]) => ~CanIncrement(workingBidders'[i])
            /\ ~workingBidders[i].IsActive => ~workingBidders'[i].IsActive

\* C29: in ProcessBids on a list the validator accepts, no step after the
\* working copy is built makes CanIncrement true for a bidder for which it
\* was false, and no step makes an inactive bidder active.
C29_CanIncrementOnlyShrinks == [][C29_Step]_vars

\* In the second round or later: a bidder deactivated by its one increment
\* is still inactive after another bidder has been raised in a later round.
C29_Witness ==
    /\ engineCalled /\ InputValid /\ rounds >= 2 /\ Len(workingBidders) = 2
    /\ \E i, j \in 1..2 :
          /\ i # j
          /\ ~workingBidders[i].IsActive
          /\ workingBidders[i].currentBidCents
                = workingBidders[i].startingBidCents + workingBidders[i].autoIncrementCents
          /\ workingBidders[j].currentBidCents
                = workingBidders[j].startingBidCents + workingBidders[j].autoIncrementCents
          /\ workingBidders[j].autoIncrementCents > 0
          /\ workingBidders[i].autoIncrementCents > 0

\* C30: ProcessBids terminates for every input, lists the validator would
\* reject included: the round loop never counts more than maxRounds passes,
\* and every call that has entered ProcessBids returns, with a result and no
\* error or with an error and no result.
C30_RoundsWithinCap ==
    engineCalled =>
        /\ rounds <= maxRounds
        /\ ProcessBidsReturned => (result.nil <=> err # NoError)

C30_ProcessBidsTerminates ==
    /\ []C30_RoundsWithinCap
    /\ (pc = "engine") ~> (pc \in {"returned", "done"})

\* ProcessBids has returned the timeout after maxRounds passes on a list the
\* validator rejects, with an increment of zero cents.
C30_Witness ==
    /\ ProcessBidsReturned /\ ~InputValid
    /\ IsTimeout(err) /\ rounds = maxRounds /\ maxRounds = TestMaxRounds
    /\ \E i \in 1..Len(workingBidders) : workingBidders[i].autoIncrementCents = 0

(* C31..C39 *)

\* The slice with every bidder as NewBidder builds it from its ID, name and
\* dollar amounts, at its entry time.
Fresh(bidders) ==
    [i \in 1..Len(bidders) |->
        [NewBidder(bidders[i].ID, bidders[i].Name, bidders[i].StartingBid,
                   bidders[i].MaxBid, bidders[i].AutoIncrement, NowTime + i)
            EXCEPT !.EntryTime = bidders[i].EntryTime]]

\* The slices that agree with bidders on ID, startingBid, maxBid,
\* autoIncrement and entry time of every bidder, with the currentBid and
\* isActive that up to MaxCalls Increment calls leave.
Variants(bidders) ==
    {Used(Fresh(bidders), ns) : ns \in [1..Len(bidders) -> 0..MaxCalls]}

\* C31: the outcome of ProcessBids does not depend on the currentBid and
\* isActive of the bidders passed in: on every slice that agrees with the
\* caller's on ID, startingBid, maxBid, autoIncrement and entry time of every
\* bidder, ProcessBids gives the error, winner, winningBid, round count and
\* final bidders that the call has returned, and every final bidder has
\* restarted from its startingBid at its supplied entry time.
C31_OutcomeIgnoresCurrentBidAndIsActive ==
    (ProcessBidsReturned /\ Len(inputBidders) > 0) =>
        /\ \A other \in Variants(inputBidders) :
              LET r == ProcessBidsOn(other, maxRounds)
              IN /\ r.err = err
                 /\ r.nil = result.nil
                 /\ ~r.nil =>
                       /\ r.winner = result.Winner
                       /\ r.winningBidCents = result.winningBidCents
                       /\ r.rounds = result.BiddingRounds
                       /\ r.bidders = ResultBidders
        /\ \A i \in 1..Len(workingBidders) :
              \E j \in 1..Len(inputBidders) :
                  /\ inputBidders[j].ID = workingBidders[i].ID
                  /\ inputBidders[j].EntryTime = workingBidders[i].EntryTime
                  /\ workingBidders[i].startingBidCents
                        = DollarsToCents(inputBidders[j].StartingBid)
                  /\ workingBidders[i].currentBidCents
                        >= workingBidders[i].startingBidCents
                     \/ workingBidders[i].autoIncrementCents < 0

\* ProcessBids has returned a result with a winner after at least one round
\* for a slice holding an inactive bidder at its maxBid, which ends below it
\* or wins.
C31_Witness ==
    /\ ProcessBidsSucceeded /\ result.Winner # 0 /\ result.BiddingRounds >= 1
    /\ \E j \in 1..Len(inputBidders) :
          /\ ~inputBidders[j].IsActive
          /\ inputBidders[j].currentBidCents = inputBidders[j].maxBidCents
          /\ inputBidders[j].currentBidCents > inputBidders[j].startingBidCents


\* Every reordering of a slice.
Reorderings(bidders) ==
    {[i \in 1..Len(bidders) |-> bidders[p[i]]] :
        p \in {q \in [1..Len(bidders) -> 1..Len(bidders)] :
                   \A i, j \in 1..Len(bidders) : i # j => q[i] # q[j]}}

\* C32: for bidders with pairwise distinct entry times, ProcessBids returns the
\* same error, winner, winning bid, round count and final state of each bidder
\* for every permutation of the input slice.
C32_ResultIgnoresInputOrder ==
    (ProcessBidsReturned /\ Len(inputBidders) > 0 /\ DistinctEntryTimes(inputBidders)) =>
        \A other \in Reorderings(inputBidders) :
            LET r == ProcessBidsOn(other, maxRounds)
            IN /\ r.err = err
               /\ r.nil = result.nil
               /\ ~r.nil =>
                     /\ r.winner = result.Winner
                     /\ r.winningBidCents = result.winningBidCents
                     /\ r.rounds = result.BiddingRounds
                     /\ r.bidders = ResultBidders

C32_Witness ==
    /\ ProcessBidsSucceeded /\ Len(inputBidders) = 2
    /\ inputBidders[1].EntryTime > inputBidders[2].EntryTime
    /\ result.Winner # 0 /\ result.BiddingRounds >= 1
    /\ ResultWinner.ID = inputBidders[2].ID
    /\ ResultBidders[1].currentBidCents = ResultBidders[2].currentBidCents
    /\ ResultBidders[1].maxBidCents = ResultBidders[2].maxBidCents

\* C33: the round counter starts at 0, goes up by one in exactly the passes
\* that incremented at least one bidder, and is left alone by the final pass,
\* which increments nobody; a successful result reports that counter, so
\* biddingRounds is 0 exactly when no bidder strictly below the initial
\* highest bid can increment.
C33_RoundsCountIncrementingPasses ==
    [][/\ pc = "engine" /\ pc' = "loop" => rounds' = 0
       /\ pc = "loop" /\ pc' = "loop" =>
             /\ rounds' = rounds + 1
             /\ \E i \in 1..Len(workingBidders) :
                   /\ workingBidders[i].currentBidCents < HighestBid(workingBidders)
                   /\ CanIncrement(workingBidders[i])
                   /\ workingBidders'[i] = Increment(workingBidders[i]).b
       /\ pc = "loop" /\ pc' = "resolve" =>
             /\ rounds' = rounds
             /\ ~Unstable(workingBidders)
             /\ workingBidders' = workingBidders
       /\ pc = "resolve" /\ ProcessBidsSucceeded' =>
             /\ result'.BiddingRounds = rounds
             /\ rounds = 0 <=> ~Unstable(Reinitialize(inputBidders))]_vars

C33_Witness ==
    /\ ProcessBidsSucceeded /\ Len(inputBidders) = 2
    /\ result.BiddingRounds = 1
    /\ Unstable(Reinitialize(inputBidders))
    /\ ~Unstable(ResultBidders)
    /\ \E i \in 1..2 : ResultBidders[i].currentBidCents > ResultBidders[i].startingBidCents

\* A direct call of CalculateMinimumWinningBidCents has returned.
MinimumReturned == op = "CalculateMinimumWinningBidCents" /\ pc = "done"

IsInputFailure(e) ==
    e # NoError /\ e[1].gotype = "InputError" /\ e[1].Type = "input"

\* The slice holds no bidder with the winner's ID.
WinnerMissing ==
    slices["winner"] # << >> /\
        \A i \in 1..Len(inputBidders) : inputBidders[i].ID # slices["winner"][1].ID

\* C34: CalculateMinimumWinningBidCents returns an input failure and the
\* amount 0 when the winner is nil, when the slice is empty, or when no bidder
\* of the slice has the winner's ID.
C34_MinimumRejectsBadInput ==
    (MinimumReturned /\ (slices["winner"] = << >> \/ Len(inputBidders) = 0 \/ WinnerMissing)) =>
        /\ IsInputFailure(err)
        /\ Len(err) = 1
        /\ err[1].Operation = "CalculateMinimumWinningBidCents"
        /\ conv.value = 0

\* The outsider as the winner of a slice of two other bidders, whose maximum
\* bids would have given a price.
C34_Witness ==
    /\ MinimumReturned /\ Len(inputBidders) = 2 /\ WinnerMissing
    /\ \E i \in 1..2 : inputBidders[i].maxBidCents > 0
    /\ IsInputFailure(err) /\ conv.value = 0

\* C35: after validation has succeeded and the engine has returned,
\* DetermineWinner returns a non-nil result that came without an error
\* unchanged; it answers a nil result without an error by a processing failure
\* with operation DetermineWinner.ResultValidation; and it wraps an engine
\* error that is not an AuctionError in a processing failure with operation
\* DetermineWinner.Processing whose cause is the engine's error.
C35_ServiceReturn ==
    [][(pc = "returned" /\ pc' = "done") =>
          /\ (err = NoError /\ ~result.nil) =>
                /\ result' = result
                /\ err' = NoError
                /\ slices' = slices
          /\ (err = NoError /\ result.nil) =>
                /\ result'.nil
                /\ err' = << ErrLayer("AuctionError", "processing",
                                      "DetermineWinner.ResultValidation") >>
          /\ (err # NoError /\ ~IsAuctionError(err)) =>
                /\ result'.nil
                /\ Head(err') = ErrLayer("AuctionError", "processing",
                                         "DetermineWinner.Processing")
                /\ Tail(err') = err]_vars

\* DetermineWinner has answered an engine that returned neither a result nor
\* an error.
C35_Witness ==
    /\ op = "MockEngine.NilResult" /\ pc = "done"
    /\ ServiceValidation = NoError
    /\ result.nil
    /\ err # NoError /\ err[1].Operation = "DetermineWinner.ResultValidation"

\* floor((maxBid - startingBid) / autoIncrement) of a bidder the validator
\* accepts, on the amounts its caller gave.
FloorRatio(b) == (b.MaxBid - b.StartingBid) \div b.AutoIncrement

RECURSIVE SumFloorRatio(_, _)
SumFloorRatio(bs, i) ==
    IF i > Len(bs) THEN 0 ELSE FloorRatio(bs[i]) + SumFloorRatio(bs, i + 1)

\* C36: for a list the validator accepts, the rounds ProcessBids executes are
\* at most the sum over the bidders of
\* floor((maxBid - startingBid) / autoIncrement).
C36_RoundsAtMostSumOfFloors ==
    (engineCalled /\ Len(inputBidders) > 0 /\ InputValid) =>
        rounds <= SumFloorRatio(inputBidders, 1)

\* The caller's list is non-empty, its IDs are pairwise distinct and no
\* starting bid is negative.
UniqueNonNegativeStarts ==
    /\ Len(inputBidders) > 0
    /\ UniqueIDs(inputBidders)
    /\ \A i \in 1..Len(inputBidders) : inputBidders[i].StartingBid >= 0

\* C37 as stated: on a non-empty list with unique IDs and non-negative
\* starting bids, the only failure ProcessBids returns is the timeout.
C37_OnlyTimeoutFails ==
    (ProcessBidsReturned /\ UniqueNonNegativeStarts /\ err # NoError) =>
        IsTimeout(err)

\* C37 amended: on a non-empty list with unique IDs, non-negative starting
\* bids and non-negative increments, the only failure ProcessBids returns is
\* the timeout, a single error with no cause.
C37_OnlyTimeoutFailsWithoutNegativeIncrement ==
    (ProcessBidsReturned /\ UniqueNonNegativeStarts /\ err # NoError
        /\ \A i \in 1..Len(inputBidders) : inputBidders[i].AutoIncrement >= 0) =>
        /\ IsTimeout(err)
        /\ Len(err) = 1
        /\ result.nil

\* ProcessBids has returned the timeout on such a list, at the round cap.
C37_Witness ==
    /\ ProcessBidsReturned /\ UniqueNonNegativeStarts
    /\ \A i \in 1..Len(inputBidders) : inputBidders[i].AutoIncrement >= 0
    /\ IsTimeout(err)
    /\ rounds = maxRounds

\* C38: in every result with a winner for a list the validator accepts, the
\* winning bid is at least the final current bid of every other bidder.
C38_WinningBidCoversRivals ==
    (ProcessBidsSucceeded /\ InputValid /\ result.Winner # 0) =>
        \A j \in 1..Len(ResultBidders) :
            j # result.Winner =>
                /\ result.winningBidCents >= ResultBidders[j].currentBidCents
                /\ result.WinningBid >= ResultBidders[j].CurrentBid

\* A rival that was raised in some round, and whose final bid is exactly the
\* winning bid.
C38_Witness ==
    /\ ProcessBidsSucceeded /\ InputValid /\ result.Winner # 0
    /\ result.BiddingRounds >= 1
    /\ \E j \in 1..Len(ResultBidders) :
          /\ j # result.Winner
          /\ ResultBidders[j].currentBidCents > ResultBidders[j].startingBidCents
          /\ ResultBidders[j].currentBidCents = result.winningBidCents

\* The largest maximum bid of a non-empty list.
LargestMaxBid(bs) == MaxOf({bs[i].maxBidCents : i \in 1..Len(bs)})

C39_Step ==
    (engineCalled' /\ InputValid /\ Len(workingBidders') > 0) =>
        /\ HighestBid(workingBidders') <= LargestMaxBid(workingBidders')
        /\ Len(workingBidders) = Len(workingBidders') =>
              HighestBid(workingBidders') >= HighestBid(workingBidders)
        /\ (ProcessBidsSucceeded' /\ result'.Winner # 0) =>
              /\ ResultBidders'[result'.Winner].currentBidCents = HighestBid(workingBidders')
              /\ ResultBidders'[result'.Winner].CurrentBid
                    = CentsToDollars(HighestBid(workingBidders'))

\* C39: in ProcessBids on a list the validator accepts, the highest current
\* bid over the working bidders never decreases from one step to the next and
\* never exceeds the largest maxBid, and the winner of a result has that
\* highest bid as its final current bid.
C39_HighestBidMonotoneAndWon == [][C39_Step]_vars

\* A result after at least one round in which the highest bid itself went
\* up: it is above every starting bid but one, and the winner holds it.
C39_Witness ==
    /\ ProcessBidsSucceeded /\ InputValid /\ result.Winner # 0
    /\ result.BiddingRounds >= 1
    /\ HighestBid(ResultBidders) > MaxOf({ResultBidders[i].startingBidCents : i \in 1..Len(ResultBidders)})
    /\ ResultWinner.currentBidCents = HighestBid(ResultBidders)
    /\ HighestBid(ResultBidders) <= LargestMaxBid(ResultBidders)


====
